---- MODULE Spec2Model ----
(***************************************************************************)
(* Model of the Playwright API test pipeline:                              *)
(*   - the three suite generators (scripts/generate_playwright_tests.py,   *)
(*     agents/generate_playwright_tests.py,                                *)
(*     scripts/generate_tests_main_script.py),                             *)
(*   - the execution of an emitted suite against the shared resourceIds    *)
(*     store,                                                              *)
(*   - the two TestDebugger implementations (scripts/ and agents/          *)
(*     debug_test_results.py): run-result interpreter, failure classifier  *)
(*     and report.                                                         *)
(* Text (paths, URL templates, error messages, output lines) is a sequence *)
(* of one-character strings, and the string operations of the source       *)
(* (lower, in, split, replace, re.findall) are computed on it.             *)
(***************************************************************************)
EXTENDS Integers, Sequences, FiniteSets, TLC

VARIABLES
    catalog,     \* the endpoint list handed to the generator (get_endpoints)
    apiSpec,     \* the API description's base-URL keys and its retrieval URL
    generator,   \* which generator produced the suite: "none" before generation
    suite,       \* the emitted suite: [serial, units], units in emitted order
    store,       \* resourceIds of the running suite: key -> stored value
    unitState,   \* per emitted unit: "pending", "running", "passed", "failed", "skipped"
    requests,    \* HTTP requests issued so far, in order
    console,     \* what the store hooks wrote: console.log/warn/error per unit
    impl,        \* which TestDebugger runs: "scripts" or "agents"
    llm,         \* the optional LLM client: "no_client", "fails" or "answers"
    runnerOut,   \* what the external runner produced for run_tests_direct
    results,     \* TestDebugger.results
    report,      \* the report built by generate_report, NoReport before
    raised,      \* the exception caught on the way ("" when none)
    coverage     \* the coverage reviewer's report, NoCoverage before it ran

genVars == <<catalog, apiSpec, generator, suite>>
runVars == <<store, unitState, requests, console>>
dbgVars == <<impl, llm, runnerOut, results, report, raised>>
vars == <<catalog, apiSpec, generator, suite, store, unitState, requests, console,
          impl, llm, runnerOut, results, report, raised, coverage>>

----------------------------------------------------------------------------
(* Text: python str operations on sequences of characters.                 *)

UpperToLower ==
    [A |-> "a", B |-> "b", C |-> "c", D |-> "d", E |-> "e", F |-> "f", G |-> "g",
     H |-> "h", I |-> "i", J |-> "j", K |-> "k", L |-> "l", M |-> "m", N |-> "n",
     O |-> "o", P |-> "p", Q |-> "q", R |-> "r", S |-> "s", T |-> "t", U |-> "u",
     V |-> "v", W |-> "w", X |-> "x", Y |-> "y", Z |-> "z"]

Digits == {"0", "1", "2", "3", "4", "5", "6", "7", "8", "9"}

\* the characters matched by \w in the regular expressions of the source
WordChars ==
    DOMAIN UpperToLower \cup {UpperToLower[c] : c \in DOMAIN UpperToLower}
        \cup Digits \cup {"_"}

\* str.lower()
Lower(s) ==
    [i \in 1..Len(s) |-> IF s[i] \in DOMAIN UpperToLower THEN UpperToLower[s[i]] ELSE s[i]]

\* python: t in s
Contains(s, t) ==
    \E i \in 0..(Len(s) - Len(t)) : SubSeq(s, i + 1, i + Len(t)) = t

\* str.find(t) + 1: the position of the first occurrence of t in s, 0 when none
Find(s, t) ==
    IF Contains(s, t)
    THEN CHOOSE i \in 1..(Len(s) - Len(t) + 1) :
            /\ SubSeq(s, i, i + Len(t) - 1) = t
            /\ \A j \in 1..(i - 1) : SubSeq(s, j, j + Len(t) - 1) # t
    ELSE 0

\* str.split(sep) for a one-character separator
RECURSIVE Split(_, _)
Split(s, sep) ==
    LET k == Find(s, <<sep>>)
    IN IF k = 0 THEN <<s>>
       ELSE <<SubSeq(s, 1, k - 1)>> \o Split(SubSeq(s, k + 1, Len(s)), sep)

\* str.replace(old, new), old not empty
RECURSIVE Replace(_, _, _)
Replace(s, old, new) ==
    LET k == Find(s, old)
    IN IF k = 0 THEN s
       ELSE SubSeq(s, 1, k - 1) \o new
                \o Replace(SubSeq(s, k + Len(old), Len(s)), old, new)

\* the length of the longest run of \w characters of s that starts at position i
RECURSIVE WordRun(_, _)
WordRun(s, i) ==
    IF i <= Len(s) /\ s[i] \in WordChars THEN 1 + WordRun(s, i + 1) ELSE 0

\* re.findall(r'\{(\w+)\}', s): the placeholder names of s, in order
RECURSIVE FindAllParams(_)
FindAllParams(s) ==
    LET k == Find(s, <<"{">>)
        n == WordRun(s, k + 1)
    IN IF k = 0 THEN <<>>
       ELSE IF n > 0 /\ k + n + 1 <= Len(s) /\ s[k + n + 1] = "}"
            THEN <<SubSeq(s, k + 1, k + n)>>
                     \o FindAllParams(SubSeq(s, k + n + 2, Len(s)))
            ELSE FindAllParams(SubSeq(s, k + 1, Len(s)))

----------------------------------------------------------------------------
(* The texts the model uses.                                               *)

P_pet == <<"/","p","e","t">>  \* /pet
P_petId == <<"/","p","e","t","/","{","p","e","t","I","d","}">>  \* /pet/{petId}
P_findByStatus == <<"/","p","e","t","/","f","i","n","d","B","y","S","t","a","t","u","s">>  \* /pet/findByStatus
P_upload == <<"/","p","e","t","/","{","p","e","t","I","d","}","/","u","p","l","o","a","d","I","m","a","g","e">>  \* /pet/{petId}/uploadImage
P_order == <<"/","s","t","o","r","e","/","o","r","d","e","r">>  \* /store/order
P_orderId == <<"/","s","t","o","r","e","/","o","r","d","e","r","/","{","o","r","d","e","r","I","d","}">>  \* /store/order/{orderId}
P_storeOrder == <<"/","s","t","o","r","e","/","{","s","t","o","r","e","I","d","}","/","o","r","d","e","r","/","{","o","r","d","e","r","I","d","}">>  \* /store/{storeId}/order/{orderId}
P_store == <<"/","s","t","o","r","e">>  \* /store
P_user == <<"/","u","s","e","r">>  \* /user
P_username == <<"/","u","s","e","r","/","{","u","s","e","r","n","a","m","e","}">>  \* /user/{username}
P_userPets == <<"/","u","s","e","r","/","{","u","s","e","r","n","a","m","e","}","/","p","e","t","s">>  \* /user/{username}/pets
P_createWithList == <<"/","u","s","e","r","/","c","r","e","a","t","e","W","i","t","h","L","i","s","t">>  \* /user/createWithList
P_createWithArray == <<"/","u","s","e","r","/","c","r","e","a","t","e","W","i","t","h","A","r","r","a","y">>  \* /user/createWithArray
P_books == <<"/","a","p","i","/","v","1","/","B","o","o","k","s">>  \* /api/v1/Books
P_booksId == <<"/","a","p","i","/","v","1","/","B","o","o","k","s","/","{","i","d","}">>  \* /api/v1/Books/{id}
P_authorBooks == <<"/","a","u","t","h","o","r","s","/","{","a","u","t","h","o","r","I","d","}","/","b","o","o","k","s","/","{","b","o","o","k","I","d","}">>  \* /authors/{authorId}/books/{bookId}

\* a JSON field that is not there, and JSON null (python None): neither is a
\* text, whose elements are single characters
Absent == <<"<absent>">>
PyNone == <<"<None>">>

K_pet == <<"p","e","t">>
K_order == <<"o","r","d","e","r">>
K_user == <<"u","s","e","r">>
K_username == <<"u","s","e","r","n","a","m","e">>
K_store == <<"s","t","o","r","e">>
K_Books == <<"B","o","o","k","s">>
K_id == <<"i","d">>
K_idBook == <<"i","d","B","o","o","k">>
K_petId == <<"p","e","t","I","d">>
K_orderId == <<"o","r","d","e","r","I","d">>

\* the store-lookup expression of a URL template: ${resourceIds['<key>']}
T_lookupOpen == <<"$","{","r","e","s","o","u","r","c","e","I","d","s","[","'">>
T_lookupClose == <<"'","]","}">>
\* ... with the fixed default identifier: ${resourceIds['<key>'] || 1}
T_lookupCloseOr1 == <<"'","]"," ","|","|"," ","1","}">>

\* '{name}'
Braced(name) == <<"{">> \o name \o <<"}">>

\* no resource name: python None or '' (both falsy, and only truthiness is tested)
NoKey == <<>>

----------------------------------------------------------------------------
(* Endpoint descriptors (get_endpoints) and the catalogs the generators    *)
(* are run on.                                                             *)

\* responses lists the declared response codes in the order the description
\* declares them (the keys of the responses dict)
Endpoint(method, path, consumes, responses) ==
    [method |-> method, path |-> path, consumes |-> consumes,
     responses |-> responses]

R_200 == <<"2","0","0">>
R_201 == <<"2","0","1">>
R_202 == <<"2","0","2">>
R_204 == <<"2","0","4">>
R_206 == <<"2","0","6">>
R_400 == <<"4","0","0">>
R_404 == <<"4","0","4">>
R_405 == <<"4","0","5">>
R_default == <<"d","e","f","a","u","l","t">>

Json == {"application/json"}
Multipart == {"multipart/form-data"}
UrlEncoded == {"application/x-www-form-urlencoded"}

Pool ==
    << Endpoint("POST", P_pet, Json, <<R_200, R_405>>),
       Endpoint("GET", P_petId, {}, <<R_200, R_404>>),
       Endpoint("DELETE", P_petId, {}, <<R_204>>),
       Endpoint("GET", P_findByStatus, {}, <<R_204, R_200>>),
       Endpoint("PUT", P_pet, Json, <<R_202, R_206>>),
       Endpoint("POST", P_upload, Multipart, <<R_200>>),
       Endpoint("POST", P_order, Json, <<R_201, R_200>>),
       Endpoint("POST", P_store, Json, <<R_201>>),
       Endpoint("GET", P_storeOrder, {}, <<R_404>>),
       Endpoint("POST", P_user, Json, <<R_default>>),
       Endpoint("GET", P_userPets, {}, <<R_200>>),
       Endpoint("POST", P_createWithList, Json, <<R_200>>),
       Endpoint("POST", P_books, Json, <<R_201, R_400>>),
       Endpoint("GET", P_booksId, {}, <<R_200>>),
       Endpoint("PUT", P_authorBooks, Json, <<R_206, R_202>>),
       Endpoint("PUT", P_username, Json \cup UrlEncoded, <<R_200>>),
       Endpoint("GET", P_orderId, {}, <<R_200>>),
       Endpoint("POST", P_petId, Json, <<R_200>>) >>

MaxCatalog == 3

\* a choice of distinct pool entries: (path, method) pairs are unique within a
\* catalog
Injective(idx) == \A i, j \in DOMAIN idx : i # j => idx[i] # idx[j]

\* the catalog that lists the chosen entries of the pool in the chosen order
CatalogOf(pool, idx) == [i \in DOMAIN idx |-> pool[idx[i]]]

\* the catalogs of at most n distinct entries of the pool
IsCatalog(c, pool, n) ==
    \E k \in 0..n : \E idx \in [1..k -> 1..Len(pool)] :
        Injective(idx) /\ c = CatalogOf(pool, idx)

----------------------------------------------------------------------------
(* Test code synthesis. An emitted unit keeps what its template fixes: the *)
(* guard key ("if (!resourceIds['k']) { ...; return; }"), the URL template *)
(* after ${BASE_URL}, and the store-write hook of a creator.               *)

HasPlaceholder(path) == Contains(path, <<"{">>)

\* path_parts[i] of the source is parts[i + 1] here
ResourceNameOf(path, method) ==
    LET parts == Split(path, "/")
        hits == {i \in 2..Len(parts) : Contains(parts[i], <<"{">>)}
        first == CHOOSE i \in hits : \A j \in hits : i <= j
        before == IF hits = {} THEN NoKey ELSE parts[first - 1]
    IN IF before = NoKey /\ method = "POST" THEN parts[Len(parts)] ELSE before

\* ResourceKeyOf without the keyword mapping: the placeholder name itself
ResourceKeyOf_RawName(param, resource_name) == param

\* the key a placeholder name is mapped to (scripts generate_test_code)
ResourceKeyOf(param, resource_name) ==
    LET param_lower == Lower(param)
    IN IF Contains(param_lower, K_pet) THEN K_pet
       ELSE IF Contains(param_lower, K_order) THEN K_order
       ELSE IF Contains(param_lower, K_user) \/ Contains(param_lower, K_username)
            THEN K_user
       ELSE resource_name

Lookup(key) == T_lookupOpen \o key \o T_lookupClose
LookupOr1(key) == T_lookupOpen \o key \o T_lookupCloseOr1

\* the loop over path_params: every {param} replaced by the lookup of its key
RECURSIVE ReplaceParams(_, _, _)
ReplaceParams(dynamic_path, path_params, resource_name) ==
    IF path_params = <<>> THEN dynamic_path
    ELSE ReplaceParams(
            Replace(dynamic_path, Braced(Head(path_params)),
                    Lookup(ResourceKeyOf(Head(path_params), resource_name))),
            Tail(path_params), resource_name)

\* str.isdigit()
IsDigit(s) == Len(s) > 0 /\ \A i \in 1..Len(s) : s[i] \in Digits

DigitValue ==
    [c \in Digits |->
        CASE c = "0" -> 0 [] c = "1" -> 1 [] c = "2" -> 2 [] c = "3" -> 3
          [] c = "4" -> 4 [] c = "5" -> 5 [] c = "6" -> 6 [] c = "7" -> 7
          [] c = "8" -> 8 [] c = "9" -> 9]

\* int(s) for a text of digits
RECURSIVE ToInt(_)
ToInt(s) ==
    IF Len(s) = 0 THEN 0
    ELSE 10 * ToInt(SubSeq(s, 1, Len(s) - 1)) + DigitValue[s[Len(s)]]

\* the code points of the characters of the response keys, in order
CodePoints ==
    <<"0","1","2","3","4","5","6","7","8","9",
      "A","B","C","D","E","F","G","H","I","J","K","L","M","N","O","P","Q","R","S",
      "T","U","V","W","X","Y","Z",
      "a","b","c","d","e","f","g","h","i","j","k","l","m","n","o","p","q","r","s",
      "t","u","v","w","x","y","z">>

Ord(c) == CHOOSE i \in 1..Len(CodePoints) : CodePoints[i] = c

\* python: a < b for two str
RECURSIVE StrLess(_, _)
StrLess(a, b) ==
    IF Len(b) = 0 THEN FALSE
    ELSE IF Len(a) = 0 THEN TRUE
    ELSE IF Head(a) = Head(b) THEN StrLess(Tail(a), Tail(b))
    ELSE Ord(Head(a)) < Ord(Head(b))

Declares(responses, code) == \E i \in 1..Len(responses) : responses[i] = code

IsSuccessCode(r) == IsDigit(r) /\ 200 <= ToInt(r) /\ ToInt(r) < 300

\* "Determine expected status" of generate_test_code (scripts and agents)
ExpectedStatus(responses, method) ==
    LET sorted == SortSeq(responses, StrLess)
        hits == {i \in 1..Len(sorted) : IsSuccessCode(sorted[i])}
        first == CHOOSE i \in hits : \A j \in hits : i <= j
        chosen == IF Declares(responses, R_200) THEN 200
                  ELSE IF Declares(responses, R_201) THEN 201
                  ELSE IF Declares(responses, R_204) THEN 204
                  ELSE IF hits # {} THEN ToInt(sorted[first])
                  ELSE 200
        any2 == \E i \in 1..Len(responses) :
                    IsDigit(responses[i]) /\ Head(responses[i]) = "2"
    IN  IF ~any2 /\ method \in {"POST", "PUT", "PATCH", "GET"} THEN 200
        ELSE chosen

\* expected_status of generate_basic_test
BasicExpectedStatus(responses) ==
    IF Declares(responses, R_200) THEN 200
    ELSE IF Declares(responses, R_201) THEN 201
    ELSE IF Declares(responses, R_204) THEN 204
    ELSE 200

Unit(ep, use_stored_id, guard, url, hook, storeKey, expected_status) ==
    [method |-> ep.method, path |-> ep.path, use_stored_id |-> use_stored_id,
     guard |-> guard, url |-> url, hook |-> hook, storeKey |-> storeKey,
     expected_status |-> expected_status]

\* ScriptsGenerateTestCode with the store hook on every POST unit that has a
\* resource name, use_stored_id or not
ScriptsGenerateTestCode_HookOnEveryPost(ep, use_stored_id) ==
    LET resource_name == ResourceNameOf(ep.path, ep.method)
        stored == use_stored_id /\ resource_name # NoKey
        creator == ep.method = "POST" /\ resource_name # NoKey
    IN Unit(ep, use_stored_id,
            IF stored THEN resource_name ELSE NoKey,
            IF stored
            THEN ReplaceParams(ep.path, FindAllParams(ep.path), resource_name)
            ELSE ep.path,
            IF ~creator THEN "none"
            ELSE IF resource_name = K_user THEN "username_or_id" ELSE "id_or_warn",
            IF creator THEN resource_name ELSE NoKey,
            ExpectedStatus(ep.responses, ep.method))

\* scripts/generate_playwright_tests.py generate_test_code
ScriptsGenerateTestCode(ep, use_stored_id) ==
    LET resource_name == ResourceNameOf(ep.path, ep.method)
        stored == use_stored_id /\ resource_name # NoKey
        creator == ep.method = "POST" /\ ~use_stored_id /\ resource_name # NoKey
    IN Unit(ep, use_stored_id,
            IF stored THEN resource_name ELSE NoKey,
            IF stored
            THEN ReplaceParams(ep.path, FindAllParams(ep.path), resource_name)
            ELSE ep.path,
            IF ~creator THEN "none"
            ELSE IF resource_name = K_user THEN "username_or_id" ELSE "id_or_warn",
            IF creator THEN resource_name ELSE NoKey,
            ExpectedStatus(ep.responses, ep.method))

\* agents/generate_playwright_tests.py generate_test_code
AgentsGenerateTestCode(ep, use_stored_id) ==
    LET resource_name == ResourceNameOf(ep.path, ep.method)
        stored == use_stored_id /\ resource_name # NoKey
        creator == ep.method = "POST" /\ ~use_stored_id /\ resource_name # NoKey
    IN Unit(ep, use_stored_id,
            IF stored THEN resource_name ELSE NoKey,
            IF stored
            THEN Replace(Replace(ep.path, Braced(K_id), Lookup(resource_name)),
                         Braced(K_idBook), Lookup(K_Books))
            ELSE ep.path,
            IF creator THEN "id" ELSE "none",
            IF creator THEN resource_name ELSE NoKey,
            ExpectedStatus(ep.responses, ep.method))

\* scripts/generate_tests_main_script.py generate_basic_test
GenerateBasicTest(ep, use_stored_id) ==
    LET resource_name == ResourceNameOf(ep.path, ep.method)
        stored == use_stored_id /\ resource_name # NoKey
        creator == ep.method = "POST" /\ ~use_stored_id /\ resource_name # NoKey
    IN Unit(ep, use_stored_id,
            NoKey,
            IF stored
            THEN Replace(Replace(Replace(Replace(ep.path,
                    Braced(K_petId), LookupOr1(K_pet)),
                    Braced(K_orderId), LookupOr1(K_order)),
                    Braced(K_username), LookupOr1(K_user)),
                    Braced(K_id), LookupOr1(resource_name))
            ELSE ep.path,
            IF creator THEN "id_or_username" ELSE "none",
            IF creator THEN resource_name ELSE NoKey,
            BasicExpectedStatus(ep.responses))

----------------------------------------------------------------------------
(* The base URL written into the suite.                                    *)

U_server == <<"h","t","t","p","s",":","/","/","s","r","v",".","i","o","/","v","3">>  \* https://srv.io/v3
U_serverSlash == <<"h","t","t","p","s",":","/","/","s","r","v",".","i","o","/","v","3","/">>  \* https://srv.io/v3/
H_host == <<"h",".","i","o">>  \* h.io
H_petstore == <<"p","e","t","s","t","o","r","e",".","s","w","a","g","g","e","r",".","i","o">>  \* petstore.swagger.io
B_v2 == <<"/","v","2">>  \* /v2
B_slash == <<"/">>  \* /
Sch_http == <<"h","t","t","p">>
Sch_https == <<"h","t","t","p","s">>
Sep_scheme == <<":","/","/">>
U_swagger == <<"h","t","t","p","s",":","/","/","x",".","i","o","/","a","p","i","/","s","w","a","g","g","e","r","/","v","1","/","s",".","j","s","o","n">>  \* https://x.io/api/swagger/v1/s.json
U_openapi == <<"h","t","t","p","s",":","/","/","x",".","i","o","/","o","p","e","n","a","p","i",".","j","s","o","n">>  \* https://x.io/openapi.json
U_placeholder == <<"h","t","t","p","s",":","/","/","a","p","i",".","e","x","a","m","p","l","e",".","c","o","m">>  \* https://api.example.com
W_swagger == <<"s","w","a","g","g","e","r">>

\* str.rstrip("/")
RECURSIVE RStripSlash(_)
RStripSlash(s) ==
    IF Len(s) > 0 /\ s[Len(s)] = "/" THEN RStripSlash(SubSeq(s, 1, Len(s) - 1)) ELSE s

\* dict.get(key, default) for a text-valued key
GetOr(v, default) == IF v = Absent THEN default ELSE v

\* urllib.parse.urlparse(url) of an absolute URL scheme://netloc[/path]
UrlParse(url) ==
    LET k == Find(url, Sep_scheme)
        rest == SubSeq(url, k + 3, Len(url))
        j == Find(rest, <<"/">>)
    IN [scheme |-> SubSeq(url, 1, k - 1),
        netloc |-> IF j = 0 THEN rest ELSE SubSeq(rest, 1, j - 1),
        path |-> IF j = 0 THEN <<>> ELSE SubSeq(rest, j, Len(rest))]

\* "/".join(parts)
RECURSIVE Join(_)
Join(parts) ==
    IF Len(parts) = 0 THEN <<>>
    ELSE IF Len(parts) = 1 THEN parts[1]
    ELSE parts[1] \o <<"/">> \o Join(Tail(parts))

\* spec["servers"][0].get("url", "") when "servers" in spec and spec["servers"]
HasServers(spec) == spec.hasServers /\ Len(spec.servers) > 0
ServerUrl(spec) == GetOr(spec.servers[1].url, <<>>)

\* schemes[0] if schemes else "https", over spec.get("schemes", ["https"])
SchemeOf(spec) ==
    IF spec.hasSchemes /\ Len(spec.schemes) > 0 THEN spec.schemes[1] ELSE Sch_https

\* f"{scheme}://{host}{base_path}".rstrip("/")
HostUrl(spec) ==
    RStripSlash(SchemeOf(spec) \o Sep_scheme \o GetOr(spec.host, <<>>)
                    \o GetOr(spec.basePath, <<>>))

\* get_base_url_from_spec, "Fallback: extract from swagger_url if provided"
FromSwaggerUrl(swagger_url) ==
    LET parsed == UrlParse(swagger_url)
        base == parsed.scheme \o Sep_scheme \o parsed.netloc
        path_parts == Split(parsed.path, "/")
        found == \E i \in 1..Len(path_parts) : path_parts[i] = W_swagger
        swagger_idx == CHOOSE i \in 1..Len(path_parts) :
                          /\ path_parts[i] = W_swagger
                          /\ \A j \in 1..(i - 1) : path_parts[j] # W_swagger
        base_path == Join(SubSeq(path_parts, 1, swagger_idx - 1))
    IN IF found /\ Len(base_path) > 0 THEN RStripSlash(base \o base_path)
       ELSE RStripSlash(base)

\* get_base_url_from_spec(spec, swagger_url), the same in
\* scripts/generate_playwright_tests.py and scripts/generate_tests_main_script.py
GetBaseUrlFromSpec(spec, swagger_url) ==
    IF HasServers(spec) /\ Len(ServerUrl(spec)) > 0 THEN RStripSlash(ServerUrl(spec))
    ELSE IF Len(GetOr(spec.host, <<>>)) > 0 THEN HostUrl(spec)
    ELSE IF swagger_url # Absent /\ Len(swagger_url) > 0 THEN FromSwaggerUrl(swagger_url)
    ELSE U_placeholder

\* scripts/generate_playwright_tests.py generate_playwright_tests: the
\* resolution written out in the function itself
ScriptsFullBaseUrl(spec) ==
    IF HasServers(spec) THEN RStripSlash(ServerUrl(spec))
    ELSE IF Len(GetOr(spec.host, <<>>)) > 0 THEN HostUrl(spec)
    ELSE LET parsed == UrlParse(spec.swagger_url)
         IN RStripSlash(parsed.scheme \o Sep_scheme \o parsed.netloc)

\* agents/generate_playwright_tests.py generate_playwright_tests:
\* spec.get("schemes", ["https"])[0] raises IndexError on an empty list
AgentsFullBaseUrl(spec) ==
    IF spec.hasSchemes /\ Len(spec.schemes) = 0
    THEN [raised |-> "IndexError", value |-> <<>>]
    ELSE [raised |-> "",
          value |-> (IF spec.hasSchemes THEN spec.schemes[1] ELSE Sch_https)
                        \o Sep_scheme \o GetOr(spec.host, H_petstore)
                        \o GetOr(spec.basePath, <<>>)]

\* the base-URL keys of an API description, and the URL it was retrieved from
\* (config swagger_url, which the loader refuses when empty)
ApiSpec(hasServers, servers, host, basePath, hasSchemes, schemes, swagger_url) ==
    [hasServers |-> hasServers, servers |-> servers, host |-> host,
     basePath |-> basePath, hasSchemes |-> hasSchemes, schemes |-> schemes,
     swagger_url |-> swagger_url]

IsApiSpec(d) ==
    \E servers \in {<<>>} \cup {<<[url |-> u]>> : u \in {Absent, <<>>, U_server, U_serverSlash}} :
    \E hasServers \in IF servers = <<>> THEN BOOLEAN ELSE {TRUE} :
    \E host \in {Absent, <<>>, H_host} :
    \E basePath \in {Absent, B_v2, B_slash} :
    \E schemes \in {<<>>, <<Sch_http>>} :
    \E hasSchemes \in IF schemes = <<>> THEN BOOLEAN ELSE {TRUE} :
    \E swagger_url \in {U_swagger, U_openapi} :
        d = ApiSpec(hasServers, servers, host, basePath, hasSchemes, schemes, swagger_url)

\* the petstore description: host, basePath and schemes, no servers
PetstoreSpec == ApiSpec(FALSE, <<>>, H_petstore, B_v2, TRUE, <<Sch_http>>, U_swagger)

\* the suite before generation
NoSuite == [serial |-> FALSE, base_url |-> Absent, units |-> <<>>]

----------------------------------------------------------------------------
(* The generators: which endpoints are emitted, and in which order.        *)

\* "Skip form-data and multipart uploads", "Skip bulk user creation endpoints"
Excluded(ep) ==
    \/ "multipart/form-data" \in ep.consumes
    \/ "application/x-www-form-urlencoded" \in ep.consumes
    \/ ep.path \in {P_createWithList, P_createWithArray}

Kept(endpoints) == SelectSeq(endpoints, LAMBDA ep : ~Excluded(ep))

IsPostTest(ep) == ep.method = "POST" /\ ~HasPlaceholder(ep.path)
IsGetListTest(ep) == ep.method = "GET" /\ ~HasPlaceholder(ep.path)

\* ScriptsPlan without the three groups: every kept endpoint in catalog order
ScriptsPlan_CatalogOrder(endpoints) ==
    LET kept == Kept(endpoints)
    IN [i \in 1..Len(kept) |->
          ScriptsGenerateTestCode(kept[i],
              ~IsPostTest(kept[i]) /\ ~IsGetListTest(kept[i]))]

\* scripts: post_tests, get_list_tests, dependent_tests (the else branch too)
ScriptsPlan(endpoints) ==
    LET kept == Kept(endpoints)
        post_tests == SelectSeq(kept, IsPostTest)
        get_list_tests == SelectSeq(kept, IsGetListTest)
        dependent_tests ==
            SelectSeq(kept, LAMBDA ep : ~IsPostTest(ep) /\ ~IsGetListTest(ep))
    IN [i \in 1..Len(post_tests) |-> ScriptsGenerateTestCode(post_tests[i], FALSE)]
       \o [i \in 1..Len(get_list_tests) |->
              ScriptsGenerateTestCode(get_list_tests[i], FALSE)]
       \o [i \in 1..Len(dependent_tests) |->
              ScriptsGenerateTestCode(dependent_tests[i], TRUE)]

\* scripts/generate_playwright_tests.py generate_playwright_tests:
\* test.describe.serial(...)
ScriptsGeneratePlaywrightTests(spec, endpoints) ==
    [serial |-> TRUE, base_url |-> ScriptsFullBaseUrl(spec),
     units |-> ScriptsPlan(endpoints)]

\* agents: post_tests.append / post_tests.insert(0, ep) / dependent_tests.append
RECURSIVE AgentsPostTests(_)
AgentsPostTests(kept) ==
    IF kept = <<>> THEN <<>>
    ELSE LET ep == kept[Len(kept)]
             earlier == AgentsPostTests(SubSeq(kept, 1, Len(kept) - 1))
         IN IF IsPostTest(ep) THEN Append(earlier, ep)
            ELSE IF IsGetListTest(ep) THEN <<ep>> \o earlier
            ELSE earlier

AgentsPlan(endpoints) ==
    LET kept == Kept(endpoints)
        post_tests == AgentsPostTests(kept)
        dependent_tests ==
            SelectSeq(kept, LAMBDA ep : /\ ~IsPostTest(ep) /\ ~IsGetListTest(ep)
                                        /\ HasPlaceholder(ep.path))
    IN [i \in 1..Len(post_tests) |-> AgentsGenerateTestCode(post_tests[i], FALSE)]
       \o [i \in 1..Len(dependent_tests) |->
              AgentsGenerateTestCode(dependent_tests[i], TRUE)]

\* agents/generate_playwright_tests.py generate_playwright_tests:
\* test.describe(...)
AgentsGeneratePlaywrightTests(spec, endpoints) ==
    IF AgentsFullBaseUrl(spec).raised # "" THEN NoSuite
    ELSE [serial |-> FALSE, base_url |-> AgentsFullBaseUrl(spec).value,
          units |-> AgentsPlan(endpoints)]

\* use_playwright_mcp_tools: "Categorize by resource"
ResourceGroupOf(ep) ==
    LET lower == Lower(ep.path)
    IN IF Contains(lower, K_pet) THEN "pet"
       ELSE IF Contains(lower, K_order) \/ Contains(lower, K_store) THEN "order"
       ELSE IF Contains(lower, K_user) THEN "user"
       ELSE "other"

\* the list of its group an endpoint is appended to; "dropped" when no branch takes it
MethodSlotOf(ep) ==
    IF ep.method = "POST" /\ ~HasPlaceholder(ep.path) THEN "post"
    ELSE IF ep.method = "GET" THEN "get"
    ELSE IF ep.method = "PUT" THEN "put"
    ELSE IF ep.method = "DELETE" THEN "delete"
    ELSE "dropped"

GroupSlot(kept, resource, slot) ==
    SelectSeq(kept, LAMBDA ep : ResourceGroupOf(ep) = resource /\ MethodSlotOf(ep) = slot)

\* "Generate tests in order: POST -> PUT -> DELETE -> GET" for one resource
McpResourcePlan(kept, resource) ==
    LET post == GroupSlot(kept, resource, "post")
        rest == GroupSlot(kept, resource, "put") \o GroupSlot(kept, resource, "delete")
                    \o GroupSlot(kept, resource, "get")
    IN [i \in 1..Len(post) |-> GenerateBasicTest(post[i], FALSE)]
       \o [i \in 1..Len(rest) |-> GenerateBasicTest(rest[i], HasPlaceholder(rest[i].path))]

McpPlan(endpoints) ==
    LET kept == Kept(endpoints)
        other == SelectSeq(kept, LAMBDA ep : ResourceGroupOf(ep) = "other")
    IN McpResourcePlan(kept, "pet") \o McpResourcePlan(kept, "order")
       \o McpResourcePlan(kept, "user")
       \o [i \in 1..Len(other) |-> GenerateBasicTest(other[i], FALSE)]

\* scripts/generate_tests_main_script.py use_playwright_mcp_tools: test.describe(...)
UsePlaywrightMcpTools(spec, endpoints) ==
    [serial |-> FALSE, base_url |-> GetBaseUrlFromSpec(spec, spec.swagger_url),
     units |-> McpPlan(endpoints)]

----------------------------------------------------------------------------
(* Execution of an emitted suite. Each unit is an async function: the      *)
(* guard, the URL interpolation and the request call run up to the await   *)
(* (Begin), the assertion and the store-write hook after it (Finish).      *)


\* "let resourceIds: Record<string, any> = {}"
EmptyStore == <<>>

Undefined == "undefined"
\* JavaScript values a response body can carry, written with their type
IdValues == {"number:7", "number:0"}
UsernameValues == {"string:alice"}
JsFalsy(v) == v \in {Undefined, "number:0", "string:"}

StoreGet(st, key) == IF key \in DOMAIN st THEN st[key] ELSE Undefined
StorePut(st, key, v) ==
    [k \in DOMAIN st \cup {key} |-> IF k = key THEN v ELSE st[k]]

StartsWith(s, t) == Len(s) >= Len(t) /\ SubSeq(s, 1, Len(t)) = t

\* the ${resourceIds['key']} and ${resourceIds['key'] || 1} expressions of a
\* URL template, in order
RECURSIVE TemplateLookups(_)
TemplateLookups(url) ==
    LET k == Find(url, T_lookupOpen)
        rest == SubSeq(url, k + Len(T_lookupOpen), Len(url))
        q == Find(rest, <<"'">>)
        after == SubSeq(rest, q, Len(rest))
    IN IF k = 0 \/ q = 0 THEN <<>>
       ELSE <<[key |-> SubSeq(rest, 1, q - 1),
               or1 |-> StartsWith(after, T_lookupCloseOr1)]>>
            \o TemplateLookups(after)

ReadKeys(u) == {TemplateLookups(u.url)[i].key : i \in 1..Len(TemplateLookups(u.url))}

\* the responses the API may give: whether the status is the asserted one,
\* whether it is a 2xx one (response.ok(); the asserted status always is),
\* and the identifier fields of the body
Responses ==
    {r \in [matches : BOOLEAN, ok : BOOLEAN, id : IdValues \cup {Undefined},
            username : UsernameValues \cup {Undefined}] : r.matches => r.ok}

\* the store hooks the three generators emit
HookKinds == {"id_or_warn", "id", "username_or_id", "id_or_username"}

\* the store after the hook of a creator unit, by the template emitted for it
HookStore(st, u, body) ==
    CASE u.hook = "none" -> st
      [] u.hook \in HookKinds /\ ~body.ok -> st
      [] u.hook = "id_or_warn" /\ body.ok ->
            IF body.id # Undefined THEN StorePut(st, u.storeKey, body.id) ELSE st
      [] u.hook = "id" /\ body.ok ->
            IF body.id # Undefined THEN StorePut(st, u.storeKey, body.id) ELSE st
      [] u.hook = "username_or_id" /\ body.ok ->
            IF body.username # Undefined THEN StorePut(st, u.storeKey, body.username)
            ELSE IF body.id # Undefined THEN StorePut(st, u.storeKey, body.id)
            ELSE st
      [] u.hook = "id_or_username" /\ body.ok ->
            IF body.id # Undefined THEN StorePut(st, u.storeKey, body.id)
            ELSE IF body.username # Undefined
                 THEN StorePut(st, u.storeKey, body.username)
            ELSE st

\* the console levels the hook of a creator unit writes at, by its template
HookLog(u, body) ==
    CASE u.hook = "none" -> {}
      [] u.hook = "id_or_warn" ->
            IF ~body.ok THEN {"error"}
            ELSE IF body.id # Undefined THEN {"log"} ELSE {"warn"}
      [] u.hook = "id" ->
            IF body.ok /\ body.id # Undefined THEN {"log"} ELSE {}
      [] u.hook \in {"username_or_id", "id_or_username"} ->
            IF body.ok /\ (body.id # Undefined \/ body.username # Undefined)
            THEN {"log"} ELSE {}

\* the guard's body is "console.log('Skipping - ...'); return;": the test
\* function returns normally and the runner records the test as passed
GuardReturnOutcome == "passed"

Finished(st) == st \in {"passed", "failed", "skipped"}

\* test.describe.serial runs the units one at a time in emitted order; a plain
\* test.describe leaves order and overlap to the runner's configuration
MayBegin(i) ==
    /\ unitState[i] = "pending"
    /\ suite.serial => \A j \in 1..(i - 1) : Finished(unitState[j])

----------------------------------------------------------------------------
(* TestDebugger: the failure classifier (generate_mcp_suggestions).        *)

\* the terms the matchers look for
W_net_err == <<"n","e","t",":",":","e","r","r">>
W_network == <<"n","e","t","w","o","r","k">>
W_timeout == <<"t","i","m","e","o","u","t">>
W_404 == <<"4","0","4">>
W_not_found == <<"n","o","t"," ","f","o","u","n","d">>
W_401 == <<"4","0","1">>
W_403 == <<"4","0","3">>
W_unauthorized == <<"u","n","a","u","t","h","o","r","i","z","e","d">>
W_400 == <<"4","0","0">>
W_bad_request == <<"b","a","d"," ","r","e","q","u","e","s","t">>
W_500 == <<"5","0","0">>
W_internal_server_error == <<"i","n","t","e","r","n","a","l"," ","s","e","r","v","e","r"," ","e","r","r","o","r">>
W_expect == <<"e","x","p","e","c","t">>
W_assertion == <<"a","s","s","e","r","t","i","o","n">>
W_tobe == <<"t","o","b","e">>
W_skipping == <<"s","k","i","p","p","i","n","g">>
W_no == <<"n","o">>
W_available == <<"a","v","a","i","l","a","b","l","e">>
W_expected == <<"e","x","p","e","c","t","e","d">>
W_received == <<"r","e","c","e","i","v","e","d">>
W_200 == <<"2","0","0">>
W_201 == <<"2","0","1">>
W_passed == <<"p","a","s","s","e","d">>
W_failed == <<"f","a","i","l","e","d">>
W_Error == <<"E","r","r","o","r",":">>
W_at == <<"a","t"," ">>

\* error texts of the runner
M_status404 == <<"E","r","r","o","r",":"," ","e","x","p","e","c","t","e","d"," ","2","0","0",","," ","r","e","c","e","i","v","e","d"," ","4","0","4"," ","N","o","t"," ","F","o","u","n","d">>  \* Error: expected 200, received 404 Not Found
M_network == <<"n","e","t",":",":","E","R","R","_","F","A","I","L","E","D">>  \* net::ERR_FAILED
M_401 == <<"4","0","1"," ","U","n","a","u","t","h","o","r","i","z","e","d">>  \* 401 Unauthorized
M_400 == <<"4","0","0"," ","B","a","d"," ","R","e","q","u","e","s","t">>  \* 400 Bad Request
M_500 == <<"5","0","0"," ","I","n","t","e","r","n","a","l"," ","S","e","r","v","e","r"," ","E","r","r","o","r">>  \* 500 Internal Server Error
M_skip == <<"S","k","i","p","p","i","n","g"," ","-"," ","n","o"," ","p","e","t"," ","I","D"," ","a","v","a","i","l","a","b","l","e">>  \* Skipping - no pet ID available
M_plain == <<"b","o","o","m">>  \* boom
S_notFound == <<"N","o","t"," ","F","o","u","n","d"," ","a","t"," ","a","p","i",".","s","p","e","c",".","t","s",":","1","2">>  \* Not Found at api.spec.ts:12
S_timeout == <<"T","i","m","e","o","u","t"," ","3","0","0","0","0","m","s"," ","e","x","c","e","e","d","e","d"," ","a","t"," ","a","p","i",".","s","p","e","c",".","t","s",":","1","2">>  \* Timeout 30000ms exceeded at api.spec.ts:12
M_empty == <<>>

ContainsAny(s, terms) == \E t \in terms : Contains(s, t)

FiresNetwork(error_msg, error_details) ==
    ContainsAny(error_msg, {W_net_err, W_network, W_timeout})
FiresEndpoint(error_msg, error_details) ==
    Contains(error_msg, W_404) \/ Contains(error_details, W_not_found)
FiresAuthentication(error_msg, error_details) ==
    ContainsAny(error_msg, {W_401, W_403}) \/ Contains(error_msg, W_unauthorized)
FiresRequest(error_msg, error_details) ==
    Contains(error_msg, W_400) \/ Contains(error_msg, W_bad_request)
FiresServer(error_msg, error_details) ==
    Contains(error_msg, W_500) \/ Contains(error_msg, W_internal_server_error)
FiresAssertion(error_msg, error_details) ==
    ContainsAny(error_msg, {W_expect, W_assertion, W_tobe})
FiresDependency(error_msg, error_details) ==
    \/ Contains(error_msg, W_skipping)
    \/ (Contains(error_msg, W_no) /\ Contains(error_msg, W_available))
FiresStatus(error_msg, error_details) ==
    /\ Contains(error_msg, W_expected) /\ Contains(error_msg, W_received)
    /\ ContainsAny(error_msg, {W_200, W_201, W_404})

\* one appended suggestion; actions is the number of remediation actions listed
Suggestion(type, severity, actions) ==
    [type |-> type, severity |-> severity, actions |-> actions]

\* the chain with elif in place of if: only the first matcher that fires appends
SuggestionsFor_FirstMatchOnly(error_msg, error_details) ==
    IF FiresNetwork(error_msg, error_details)
    THEN <<Suggestion("network", "high", 4)>>
    ELSE IF FiresEndpoint(error_msg, error_details)
    THEN <<Suggestion("endpoint", "high", 5)>>
    ELSE IF FiresAuthentication(error_msg, error_details)
    THEN <<Suggestion("authentication", "high", 4)>>
    ELSE IF FiresRequest(error_msg, error_details)
    THEN <<Suggestion("request", "medium", 4)>>
    ELSE IF FiresServer(error_msg, error_details)
    THEN <<Suggestion("server", "medium", 4)>>
    ELSE IF FiresAssertion(error_msg, error_details)
    THEN <<Suggestion("assertion", "medium", 5)>>
    ELSE IF FiresDependency(error_msg, error_details)
    THEN <<Suggestion("dependency", "low", 5)>>
    ELSE IF FiresStatus(error_msg, error_details)
    THEN <<Suggestion("status", "medium", 4)>>
    ELSE <<>>

\* the chain of independent if statements, each appending at most one suggestion
SuggestionsFor(error_msg, error_details) ==
    (IF FiresNetwork(error_msg, error_details)
     THEN <<Suggestion("network", "high", 4)>> ELSE <<>>)
    \o (IF FiresEndpoint(error_msg, error_details)
        THEN <<Suggestion("endpoint", "high", 5)>> ELSE <<>>)
    \o (IF FiresAuthentication(error_msg, error_details)
        THEN <<Suggestion("authentication", "high", 4)>> ELSE <<>>)
    \o (IF FiresRequest(error_msg, error_details)
        THEN <<Suggestion("request", "medium", 4)>> ELSE <<>>)
    \o (IF FiresServer(error_msg, error_details)
        THEN <<Suggestion("server", "medium", 4)>> ELSE <<>>)
    \o (IF FiresAssertion(error_msg, error_details)
        THEN <<Suggestion("assertion", "medium", 5)>> ELSE <<>>)
    \o (IF FiresDependency(error_msg, error_details)
        THEN <<Suggestion("dependency", "low", 5)>> ELSE <<>>)
    \o (IF FiresStatus(error_msg, error_details)
        THEN <<Suggestion("status", "medium", 4)>> ELSE <<>>)

\* generate_mcp_suggestions(failure). failure["errorMessage"] and
\* failure["errorDetails"] raise KeyError on a record without the key, and
\* .lower() raises AttributeError on None; otherwise the suggestions are returned
GenerateMcpSuggestions(failure) ==
    IF failure.errorMessage = Absent THEN [raised |-> "KeyError", value |-> <<>>]
    ELSE IF failure.errorMessage = PyNone
    THEN [raised |-> "AttributeError", value |-> <<>>]
    ELSE IF failure.errorDetails = Absent THEN [raised |-> "KeyError", value |-> <<>>]
    ELSE IF failure.errorDetails = PyNone
    THEN [raised |-> "AttributeError", value |-> <<>>]
    ELSE [raised |-> "",
          value |-> SuggestionsFor(Lower(failure.errorMessage),
                                   Lower(failure.errorDetails))]

----------------------------------------------------------------------------
(* TestDebugger: what the external runner hands to run_tests_direct.       *)

\* one attempt of a test (an element of test["results"]); hasError says whether
\* the "error" key is there, message and stack are texts, Absent or PyNone
Attempt(status, hasError, message, stack) ==
    [status |-> status, hasError |-> hasError, message |-> message, stack |-> stack]

\* the error objects a failed attempt carries in the inputs
ErrorVariants ==
    { [hasError |-> FALSE, message |-> Absent, stack |-> Absent],
      [hasError |-> TRUE, message |-> Absent, stack |-> Absent],
      [hasError |-> TRUE, message |-> M_empty, stack |-> M_empty],
      [hasError |-> TRUE, message |-> M_status404, stack |-> Absent],
      [hasError |-> TRUE, message |-> M_plain, stack |-> S_notFound],
      [hasError |-> TRUE, message |-> M_plain, stack |-> S_timeout],
      [hasError |-> TRUE, message |-> M_network, stack |-> PyNone],
      [hasError |-> TRUE, message |-> M_401, stack |-> Absent],
      [hasError |-> TRUE, message |-> M_400, stack |-> Absent],
      [hasError |-> TRUE, message |-> M_500, stack |-> Absent],
      [hasError |-> TRUE, message |-> M_skip, stack |-> Absent],
      [hasError |-> TRUE, message |-> Absent, stack |-> PyNone],
      [hasError |-> TRUE, message |-> PyNone, stack |-> Absent],
      [hasError |-> TRUE, message |-> PyNone, stack |-> S_notFound] }

Clean(status) == Attempt(status, FALSE, Absent, Absent)
Failed(e) == Attempt("failed", e.hasError, e.message, e.stack)

\* one test of a spec; hasResults says whether the "results" key is there
Test(hasResults, attempts) == [hasResults |-> hasResults, results |-> attempts]

\* the tests of the inputs, all failed attempts of a tree carrying the error e
TestsWith(e) ==
    { Test(TRUE, <<Clean("passed")>>), Test(TRUE, <<Failed(e)>>),
      Test(TRUE, <<Clean("skipped")>>), Test(TRUE, <<Clean("timedOut")>>),
      Test(TRUE, <<Failed(e), Clean("passed")>>),
      Test(TRUE, <<Failed(e), Failed(e)>>),
      Test(TRUE, <<>>), Test(FALSE, <<>>) }

MaxTests == 2

T_spec1 == <<"s","p","e","c","1">>
T_spec2 == <<"s","p","e","c","2">>

SpecNode(title, tests) == [title |-> title, hasTests |-> TRUE, tests |-> tests]
LeafSuite(specs) ==
    [hasSpecs |-> TRUE, specs |-> specs, hasSuites |-> FALSE, suites |-> <<>>]
FileSuite(specs, suites) ==
    [hasSpecs |-> TRUE, specs |-> specs, hasSuites |-> TRUE, suites |-> suites]
Root(hasSuites, suites, hasSpecs, specs) ==
    [hasSuites |-> hasSuites, suites |-> suites, hasSpecs |-> hasSpecs, specs |-> specs]

\* a file suite with the tests t1 in a spec of its own and the tests t2 in a
\* spec of a nested describe suite
NestedRoot(t1, t2) ==
    Root(TRUE,
         <<FileSuite(<<SpecNode(T_spec1, t1)>>,
                     <<LeafSuite(<<SpecNode(T_spec2, t2)>>)>>)>>,
         FALSE, <<>>)
FlatRoot(t1) == Root(FALSE, <<>>, TRUE, <<SpecNode(T_spec1, t1)>>)

\* the structured outputs: nothing at all, empty lists, a suite without specs,
\* and the trees of at most MaxTests tests whose failed attempts carry one of
\* the error objects
EmptyRoots ==
    { Root(FALSE, <<>>, FALSE, <<>>), Root(TRUE, <<>>, FALSE, <<>>),
      Root(TRUE, <<>>, TRUE, <<>>), Root(TRUE, <<LeafSuite(<<>>)>>, FALSE, <<>>) }

\* the lines of the runner's free-text output
L_pass == <<"<check>"," ","G","E","T"," ","/","p","e","t">>
L_fail == <<"<cross>"," ","P","O","S","T"," ","/","p","e","t">>
L_passedCount == <<" "," ","1"," ","p","a","s","s","e","d">>
L_failedCount == <<" "," ","1"," ","f","a","i","l","e","d">>
L_error == <<"E","r","r","o","r",":"," ","e","x","p","e","c","t","e","d"," ","2","0","0",","," ","r","e","c","e","i","v","e","d"," ","4","0","4"," ","N","o","t"," ","F","o","u","n","d">>
L_at == <<" "," "," "," ","a","t"," ","a","p","i",".","s","p","e","c",".","t","s",":","1","2">>
L_blank == <<>>
L_spaces == <<" "," ">>
L_running == <<"R","u","n","n","i","n","g"," ","2"," ","t","e","s","t","s">>

TextLines ==
    {L_pass, L_fail, L_passedCount, L_failedCount, L_error, L_at, L_blank,
     L_spaces, L_running}

MaxLines == 3

\* the runner could not be launched, printed JSON, or printed something else
\* (at most MaxLines lines; a text always splits into at least one line)
IsRunnerOutput(out) ==
    \/ out = [kind |-> "launch_error"]
    \/ \E r \in EmptyRoots : out = [kind |-> "json", root |-> r]
    \/ \E e \in ErrorVariants : \E n1 \in 0..MaxTests : \E n2 \in 0..(MaxTests - n1) :
          \E t1 \in [1..n1 -> TestsWith(e)], t2 \in [1..n2 -> TestsWith(e)] :
              out = [kind |-> "json", root |-> NestedRoot(t1, t2)]
    \/ \E e \in ErrorVariants : \E n1 \in 0..MaxTests :
          \E t1 \in [1..n1 -> TestsWith(e)] :
              out = [kind |-> "json", root |-> FlatRoot(t1)]
    \/ \E k \in 1..MaxLines : \E t \in [1..k -> TextLines] :
          out = [kind |-> "text", lines |-> t]

----------------------------------------------------------------------------
(* TestDebugger: the interpreter of structured results.                    *)

\* TestDebugger.__init__; the aiAnalysis key is not there until the LLM answers
NoResults ==
    [total |-> 0, passed |-> 0, failed |-> 0, skipped |-> 0,
     failures |-> <<>>, errors |-> <<>>, warnings |-> <<>>, aiAnalysis |-> Absent]

NoReport == [built |-> FALSE]

T_unknownFile == <<"U","n","k","n","o","w","n"," ","f","i","l","e">>

\* python truthiness of an optional text
Truthy(v) == v # Absent /\ v # PyNone /\ v # <<>>

\* dict.get(key, "") on an error object: the default only replaces a missing key
GetOrEmpty(v) == IF v = Absent THEN M_empty ELSE v

\* the interpreter's running state: the results so far and the exception that
\* stopped it ("" while none was raised)
Acc(res, exc) == [res |-> res, raised |-> exc]

\* analyze_failure(spec, test, result)
AnalyzeFailure(acc, spec, result) ==
    LET errorMessage == IF result.hasError THEN GetOrEmpty(result.message)
                        ELSE M_empty
        errorDetails == IF ~result.hasError THEN M_empty
                        ELSE IF Truthy(result.stack) THEN result.stack
                        ELSE GetOrEmpty(result.message)
        failure == [test |-> spec.title, file |-> T_unknownFile,
                    status |-> result.status,
                    errorMessage |-> errorMessage,
                    errorDetails |-> errorDetails,
                    suggestions |-> <<>>]
        sug == GenerateMcpSuggestions(failure)
    IN  IF sug.raised # "" THEN Acc(acc.res, sug.raised)
        ELSE Acc([acc.res EXCEPT !.failures =
                      Append(@, [failure EXCEPT !.suggestions = sug.value])], "")

\* the body of the loop over test["results"] in process_spec
ProcessResult(acc, spec, result) ==
    IF result.status = "passed"
    THEN Acc([acc.res EXCEPT !.passed = @ + 1], "")
    ELSE IF result.status = "failed"
    THEN AnalyzeFailure(Acc([acc.res EXCEPT !.failed = @ + 1], ""), spec, result)
    ELSE IF result.status = "skipped"
    THEN Acc([acc.res EXCEPT !.skipped = @ + 1], "")
    ELSE acc

RECURSIVE ProcessAttempts(_, _, _)
ProcessAttempts(acc, spec, attempts) ==
    IF Len(attempts) = 0 \/ acc.raised # "" THEN acc
    ELSE ProcessAttempts(ProcessResult(acc, spec, Head(attempts)), spec,
                         Tail(attempts))

\* the body of the loop over spec["tests"] in process_spec
ProcessTest(acc, spec, t) ==
    LET counted == Acc([acc.res EXCEPT !.total = @ + 1], "")
    IN  IF t.hasResults THEN ProcessAttempts(counted, spec, t.results)
        ELSE counted

RECURSIVE ProcessTests(_, _, _)
ProcessTests(acc, spec, tests) ==
    IF Len(tests) = 0 \/ acc.raised # "" THEN acc
    ELSE ProcessTests(ProcessTest(acc, spec, Head(tests)), spec, Tail(tests))

\* process_spec(spec)
ProcessSpec(acc, spec) ==
    IF spec.hasTests THEN ProcessTests(acc, spec, spec.tests) ELSE acc

RECURSIVE ProcessSpecs(_, _)
ProcessSpecs(acc, specs) ==
    IF Len(specs) = 0 \/ acc.raised # "" THEN acc
    ELSE ProcessSpecs(ProcessSpec(acc, Head(specs)), Tail(specs))

\* process_suite(suite): its specs, then its sub-suites
RECURSIVE ProcessSuite(_, _)
RECURSIVE ProcessSuites(_, _)
ProcessSuite(acc, s) ==
    LET afterSpecs == IF s.hasSpecs THEN ProcessSpecs(acc, s.specs) ELSE acc
    IN  IF s.hasSuites THEN ProcessSuites(afterSpecs, s.suites) ELSE afterSpecs

ProcessSuites(acc, suites) ==
    IF Len(suites) = 0 \/ acc.raised # "" THEN acc
    ELSE ProcessSuites(ProcessSuite(acc, Head(suites)), Tail(suites))

\* the walk of analyze_results: the root's suites if the key is there,
\* otherwise the root's specs
WalkResults(res, root) ==
    IF root.hasSuites THEN ProcessSuites(Acc(res, ""), root.suites)
    ELSE IF root.hasSpecs THEN ProcessSpecs(Acc(res, ""), root.specs)
    ELSE Acc(res, "")

----------------------------------------------------------------------------
(* TestDebugger: the free-text fallback, execution errors, the LLM.        *)

G_check == <<"<check>">>   \* the check-mark glyph
G_cross == <<"<cross>">>   \* the ballot-x glyph
G_times == <<"<times>">>   \* the multiplication-sign glyph

\* str.strip() over the whitespace the lines carry
RECURSIVE LStrip(_)
LStrip(s) == IF Len(s) > 0 /\ Head(s) = " " THEN LStrip(Tail(s)) ELSE s
RECURSIVE RStrip(_)
RStrip(s) ==
    IF Len(s) > 0 /\ s[Len(s)] = " " THEN RStrip(SubSeq(s, 1, Len(s) - 1)) ELSE s
Strip(s) == RStrip(LStrip(s))

\* the loop state of analyze_text_output
TextState(res, exc, in_failure, has_current, current_failure) ==
    [res |-> res, raised |-> exc, in_failure |-> in_failure,
     has_current |-> has_current, current_failure |-> current_failure]

\* current_failure = {"test": line.strip(), "errorMessage": "", "suggestions": []}
TextFailure(line) ==
    [test |-> Strip(line), errorMessage |-> M_empty, errorDetails |-> Absent,
     suggestions |-> <<>>]

NoFailure == TextFailure(<<>>)

\* the body of the loop over the lines in analyze_text_output
TextLine(st, line) ==
    LET s1 == IF Contains(line, W_passed) \/ Contains(line, G_check)
              THEN [st EXCEPT !.res.passed = @ + 1, !.res.total = @ + 1]
              ELSE st
        s2 == IF Contains(line, W_failed) \/ Contains(line, G_cross)
                 \/ Contains(line, G_times)
              THEN [s1 EXCEPT !.res.failed = @ + 1, !.res.total = @ + 1,
                              !.in_failure = TRUE, !.has_current = TRUE,
                              !.current_failure = TextFailure(line)]
              ELSE s1
        s3 == IF s2.in_failure /\ (Contains(line, W_Error) \/ Contains(line, W_at))
                 /\ s2.has_current
              THEN [s2 EXCEPT !.current_failure.errorMessage = @ \o line \o <<"\n">>]
              ELSE s2
        sug == GenerateMcpSuggestions(s3.current_failure)
    IN  IF s3.in_failure /\ Strip(line) = <<>>
        THEN IF s3.has_current /\ sug.raised # ""
             THEN [s3 EXCEPT !.raised = sug.raised]
             ELSE [s3 EXCEPT
                     !.res.failures =
                         IF s3.has_current
                         THEN Append(@, [s3.current_failure EXCEPT
                                           !.suggestions = sug.value])
                         ELSE @,
                     !.in_failure = FALSE, !.has_current = FALSE,
                     !.current_failure = NoFailure]
        ELSE s3

RECURSIVE TextLines_Fold(_, _)
TextLines_Fold(st, lines) ==
    IF Len(lines) = 0 \/ st.raised # "" THEN st
    ELSE TextLines_Fold(TextLine(st, Head(lines)), Tail(lines))

\* the walk of analyze_text_output
WalkText(res, lines) ==
    LET st == TextLines_Fold(TextState(res, "", FALSE, FALSE, NoFailure), lines)
    IN  Acc(st.res, st.raised)

\* the texts of the execution errors
E_noTests == "No tests discovered. Check file path or Playwright configuration."
E_noOutput ==
    "No output from Playwright. Ensure Playwright is installed and tests exist."
E_launch == "[Errno 2] No such file or directory: 'npx'"
E_keyError == "'errorDetails'"
E_attributeError == "'NoneType' object has no attribute 'lower'"

\* str(e) of the exceptions the model raises
StrOf(exc) ==
    IF exc = "KeyError" THEN E_keyError
    ELSE IF exc = "AttributeError" THEN E_attributeError
    ELSE E_launch

\* the append of analyze_error_output(output, error); error is "" for None
AppendError(res, output, error) ==
    [res EXCEPT !.errors =
        Append(@, [message |-> IF error # "" THEN error ELSE output,
                   output |-> output,
                   suggestions |-> <<Suggestion("execution", "high", 5)>>])]

AiText == <<"R","o","o","t"," ","C","a","u","s","e">>

\* ApplyLlmAnalysis with the answer fed back into the classification: the
\* suggestions of every failure are dropped when the client answers
ApplyLlmAnalysis_Reclassify(client, res) ==
    IF client = "answers"
    THEN [res EXCEPT !.aiAnalysis = AiText,
                     !.failures = [i \in 1..Len(@) |->
                                      [@[i] EXCEPT !.suggestions = <<>>]]]
    ELSE res

\* apply_llm_analysis(): without a client, or when the call fails, nothing
\* changes; an answer is stored with setdefault
ApplyLlmAnalysis(client, res) ==
    IF client = "answers" /\ res.aiAnalysis = Absent
    THEN [res EXCEPT !.aiAnalysis = AiText]
    ELSE res

----------------------------------------------------------------------------
(* TestDebugger: generate_report and run_tests.                            *)

\* round(x) of python on the quotient n / d: half to even
RoundHalfEven(n, d) ==
    LET q == n \div d
        r == n % d
    IN  IF 2 * r < d THEN q
        ELSE IF 2 * r > d THEN q + 1
        ELSE IF q % 2 = 0 THEN q ELSE q + 1

\* pass_rate, in hundredths of a percent: round(passed / total * 100 * 100) / 100
PassRate(res) ==
    IF res.total > 0 THEN RoundHalfEven(res.passed * 10000, res.total) ELSE 0

FiftyPercent == 5000

\* one line of the recommendations; count is the number the line prints
Rec(rec, count) == [rec |-> rec, count |-> count]

\* the failure records carrying a suggestion of the given type
FailuresOfType(failures, type) ==
    { i \in 1..Len(failures) :
        \E k \in 1..Len(failures[i].suggestions) :
            failures[i].suggestions[k].type = type }

RecIfAny(failures, type) ==
    IF FailuresOfType(failures, type) # {}
    THEN <<Rec(type, Cardinality(FailuresOfType(failures, type)))>>
    ELSE <<>>

\* the recommendations counted over report["failures"]
FailureRecs(failures) ==
    IF Len(failures) > 0
    THEN RecIfAny(failures, "network") \o RecIfAny(failures, "endpoint")
         \o RecIfAny(failures, "authentication") \o RecIfAny(failures, "dependency")
    ELSE <<>>

LessThanHalf == <<Rec("lt50", 0)>>

HealthyIfNone(recs, res) ==
    IF Len(recs) = 0 /\ res.failed = 0 THEN <<Rec("healthy", 0)>> ELSE recs

Summary(res) ==
    [total |-> res.total, passed |-> res.passed, failed |-> res.failed,
     skipped |-> res.skipped, passRate |-> PassRate(res)]

Report(res, ai, banner, recommendations) ==
    [built |-> TRUE, summary |-> Summary(res), failures |-> res.failures,
     errors |-> res.errors, ai |-> ai, banner |-> banner,
     recommendations |-> recommendations]

\* generate_report() of scripts/debug_test_results.py
ScriptsGenerateReport(res) ==
    LET discovery ==
            IF res.total = 0
            THEN <<Rec("no_tests_discovered", 0), Rec("ensure_file_exists", 0),
                   Rec("try_running", 0), Rec("ts_node", 0)>>
            ELSE IF PassRate(res) < FiftyPercent THEN LessThanHalf ELSE <<>>
        again == IF PassRate(res) < FiftyPercent THEN LessThanHalf ELSE <<>>
    IN  Report(res, res.aiAnalysis,
               res.failed = 0 /\ Len(res.errors) = 0 /\ res.total > 0,
               HealthyIfNone(discovery \o again \o FailureRecs(res.failures), res))

\* generate_report() of agents/debug_test_results.py
AgentsGenerateReport(res) ==
    LET half == IF PassRate(res) < FiftyPercent THEN LessThanHalf ELSE <<>>
    IN  Report(res, Absent,
               res.failed = 0 /\ Len(res.errors) = 0,
               HealthyIfNone(half \o FailureRecs(res.failures), res))

\* what a run leaves behind: the results, the report, the exception caught
Outcome(res, rep, exc) == [res |-> res, report |-> rep, raised |-> exc]

\* the tail of the analyze_* methods of scripts: apply_llm_analysis(),
\* generate_report()
ScriptsDone(res, client, exc) ==
    LET r == ApplyLlmAnalysis(client, res)
    IN  Outcome(r, ScriptsGenerateReport(r), exc)

\* the tail of the analyze_* methods of agents: generate_report()
AgentsDone(res, exc) == Outcome(res, AgentsGenerateReport(res), exc)

\* python truthiness of json_output.get(key) for a list-valued key
Listed(has, list) == has /\ Len(list) > 0

AllBlank(lines) == \A i \in 1..Len(lines) : Strip(lines[i]) = <<>>

\* ScriptsRunTests without the except clauses of run_tests and
\* run_tests_direct: what is raised leaves run_tests, no report is built
ScriptsRunTests_NoHandler(out, client) ==
    IF out.kind = "launch_error"
    THEN Outcome(NoResults, NoReport, "OSError")
    ELSE IF out.kind = "json"
    THEN IF ~Listed(out.root.hasSuites, out.root.suites)
            /\ ~Listed(out.root.hasSpecs, out.root.specs)
         THEN ScriptsDone(AppendError(NoResults, E_noTests, ""), client, "")
         ELSE LET acc == WalkResults(NoResults, out.root)
              IN  IF acc.raised # ""
                  THEN Outcome(acc.res, NoReport, acc.raised)
                  ELSE ScriptsDone(acc.res, client, "")
    ELSE IF AllBlank(out.lines)
         THEN ScriptsDone(AppendError(NoResults, E_noOutput, ""), client, "")
         ELSE LET acc == WalkText(NoResults, out.lines)
              IN  IF acc.raised # ""
                  THEN Outcome(acc.res, NoReport, acc.raised)
                  ELSE ScriptsDone(acc.res, client, "")

\* run_tests() of scripts/debug_test_results.py
ScriptsRunTests(out, client) ==
    IF out.kind = "launch_error"
    THEN ScriptsDone(AppendError(NoResults, E_launch, E_launch), client, "OSError")
    ELSE IF out.kind = "json"
    THEN IF ~Listed(out.root.hasSuites, out.root.suites)
            /\ ~Listed(out.root.hasSpecs, out.root.specs)
         THEN ScriptsDone(AppendError(NoResults, E_noTests, ""), client, "")
         ELSE LET acc == WalkResults(NoResults, out.root)
              IN  IF acc.raised # ""
                  THEN ScriptsDone(AppendError(acc.res, StrOf(acc.raised),
                                               StrOf(acc.raised)),
                                   client, acc.raised)
                  ELSE ScriptsDone(acc.res, client, "")
    ELSE IF AllBlank(out.lines)
         THEN ScriptsDone(AppendError(NoResults, E_noOutput, ""), client, "")
         ELSE LET acc == WalkText(NoResults, out.lines)
              IN  IF acc.raised # ""
                  THEN ScriptsDone(AppendError(acc.res, StrOf(acc.raised),
                                               StrOf(acc.raised)),
                                   client, acc.raised)
                  ELSE ScriptsDone(acc.res, client, "")

\* run_tests() of agents/debug_test_results.py
AgentsRunTests(out) ==
    IF out.kind = "launch_error"
    THEN AgentsDone(AppendError(NoResults, E_launch, E_launch), "OSError")
    ELSE LET acc == IF out.kind = "json" THEN WalkResults(NoResults, out.root)
                    ELSE WalkText(NoResults, out.lines)
         IN  IF acc.raised # ""
             THEN AgentsDone(AppendError(acc.res, StrOf(acc.raised),
                                         StrOf(acc.raised)), acc.raised)
             ELSE AgentsDone(acc.res, "")

----------------------------------------------------------------------------
(* The coverage reviewer (scripts/review_test_coverage.py).                *)

T_request == <<"r","e","q","u","e","s","t",".">>  \* request.
T_baseUrl == <<"$","{","B","A","S","E","_","U","R","L","}">>  \* ${BASE_URL}
T_callTail == <<"<backquote>",","," ","{">>  \* <backquote>, {
T_param == <<"{","p","a","r","a","m","}">>  \* {param}
Quotes == {"\"", "<backquote>", "'"}

\* method.lower() as the generators write it into the call
JsMethod(method) ==
    CASE method = "GET" -> <<"g","e","t">>
      [] method = "POST" -> <<"p","o","s","t">>
      [] method = "PUT" -> <<"p","u","t">>
      [] method = "DELETE" -> <<"d","e","l","e","t","e">>
      [] method = "PATCH" -> <<"p","a","t","c","h">>

\* the request call a unit is emitted with:
\* await request.<method>(<backquote>${BASE_URL}<url><backquote>, {
RequestCall(u) ==
    T_request \o JsMethod(u.method) \o <<"(", "<backquote>">> \o T_baseUrl \o u.url
        \o T_callTail

\* the length of the run of characters of s from position i that are no quotes
RECURSIVE NonQuoteRun(_, _)
NonQuoteRun(s, i) ==
    IF i <= Len(s) /\ s[i] \notin Quotes THEN 1 + NonQuoteRun(s, i + 1) ELSE 0

\* request_pattern on the text of one call:
\* request\.(get|post|put|delete|patch)\(q([^q]+)q with q one of the three
\* quote characters (the backquote is written "<backquote>" here), IGNORECASE,
\* with group(1).upper() and group(2)
RequestMatch(call) ==
    LET k == Find(call, T_request)
        rest == SubSeq(call, k + Len(T_request), Len(call))
        p == Find(rest, <<"(">>)
        name == Lower(SubSeq(rest, 1, p - 1))
        methods == {m \in {"GET", "POST", "PUT", "DELETE", "PATCH"} : JsMethod(m) = name}
        n == NonQuoteRun(rest, p + 2)
        ok == /\ k > 0 /\ p > 0 /\ methods # {}
              /\ p + 1 <= Len(rest) /\ rest[p + 1] \in Quotes
              /\ n > 0 /\ p + 2 + n <= Len(rest)
    IN  IF ok
        THEN [matched |-> TRUE, method |-> CHOOSE m \in methods : TRUE,
              url |-> SubSeq(rest, p + 2, p + 1 + n)]
        ELSE [matched |-> FALSE, method |-> "", url |-> <<>>]

\* s.split(sep)[-1]: what follows the last occurrence of sep
RECURSIVE AfterLast(_, _)
AfterLast(s, sep) ==
    LET k == Find(s, sep)
    IN IF k = 0 THEN s ELSE AfterLast(SubSeq(s, k + Len(sep), Len(s)), sep)

\* "Extract path from URL (remove BASE_URL and query params)"; the url of a
\* match holds no backquote, so the template-literal search of the elif
\* branch finds nothing and the branch is url.split("?")[0]
PathOfUrl(url) ==
    IF Contains(url, T_baseUrl) THEN Split(AfterLast(url, T_baseUrl), "?")[1]
    ELSE Split(url, "?")[1]

\* extract_tests_from_file: tested_endpoints, the (method, path) of every
\* request call of the file
ExtractTestsFromFile(s) ==
    {[method |-> RequestMatch(RequestCall(s.units[i])).method,
      path |-> PathOfUrl(RequestMatch(RequestCall(s.units[i])).url)] :
        i \in {j \in 1..Len(s.units) : RequestMatch(RequestCall(s.units[j])).matched}}

\* re.sub(open + r'[^}]+\}', '{param}', s) for open = \{ or \$\{
RECURSIVE SubBraced(_, _)
SubBraced(s, open) ==
    LET k == Find(s, open)
        rest == SubSeq(s, k + Len(open), Len(s))
        j == Find(rest, <<"}">>)
    IN IF k = 0 \/ j = 0 THEN s
       ELSE IF j = 1
            THEN SubSeq(s, 1, k) \o SubBraced(SubSeq(s, k + 1, Len(s)), open)
       ELSE SubSeq(s, 1, k - 1) \o T_param
                \o SubBraced(SubSeq(rest, j + 1, Len(rest)), open)

\* normalize_path(path)
NormalizePath(path) ==
    LET stripped == IF Len(RStripSlash(path)) = 0 THEN <<"/">> ELSE RStripSlash(path)
    IN  SubBraced(SubBraced(stripped, <<"{">>), <<"$", "{">>)

NoCoverage == [reviewed |-> FALSE]

\* analyze_coverage(spec_endpoints, tested_endpoints): the positions in the
\* catalog of the covered and of the missing endpoints
AnalyzeCoverage(spec_endpoints, tested_endpoints) ==
    LET tested_set == {[method |-> t.method, path |-> NormalizePath(t.path)] :
                          t \in tested_endpoints}
        testable == {k \in 1..Len(spec_endpoints) : ~Excluded(spec_endpoints[k])}
        covered == {k \in testable :
                       [method |-> spec_endpoints[k].method,
                        path |-> NormalizePath(spec_endpoints[k].path)] \in tested_set}
    IN  [reviewed |-> TRUE, tested_endpoints |-> tested_endpoints,
         covered |-> covered, missing |-> testable \ covered]

----------------------------------------------------------------------------
(* Actions.                                                                *)

Load(gen, s) ==
    /\ generator = "none"
    /\ generator' = gen
    /\ suite' = s
    /\ unitState' = [i \in 1..Len(s.units) |-> "pending"]
    /\ UNCHANGED <<catalog, apiSpec, store, requests, console, dbgVars, coverage>>

GenerateScripts == Load("scripts", ScriptsGeneratePlaywrightTests(apiSpec, catalog))
GenerateAgents == Load("agents", AgentsGeneratePlaywrightTests(apiSpec, catalog))
GenerateMcp == Load("mcp", UsePlaywrightMcpTools(apiSpec, catalog))

\* in a serial group the units after a failed one are skipped by the runner
RunnerSkip(i) ==
    /\ MayBegin(i)
    /\ suite.serial
    /\ \E j \in 1..(i - 1) : unitState[j] = "failed"
    /\ unitState' = [unitState EXCEPT ![i] = "skipped"]
    /\ UNCHANGED <<genVars, store, requests, console, dbgVars, coverage>>

Begin(i) ==
    LET u == suite.units[i]
    IN /\ MayBegin(i)
       /\ ~(suite.serial /\ \E j \in 1..(i - 1) : unitState[j] = "failed")
       /\ IF u.guard # NoKey /\ JsFalsy(StoreGet(store, u.guard))
          THEN /\ unitState' = [unitState EXCEPT ![i] = GuardReturnOutcome]
               /\ UNCHANGED requests
          ELSE /\ unitState' = [unitState EXCEPT ![i] = "running"]
               /\ requests' = Append(requests,
                      [unit |-> i,
                       absent |-> {k \in ReadKeys(u) : k \notin DOMAIN store}])
       /\ UNCHANGED <<genVars, store, console, dbgVars, coverage>>

Finish(i, resp) ==
    LET u == suite.units[i]
    IN /\ unitState[i] = "running"
       /\ IF resp.matches
          THEN /\ store' = HookStore(store, u, resp)
               /\ console' = console \cup
                      {[unit |-> i, level |-> l] : l \in HookLog(u, resp)}
               /\ unitState' = [unitState EXCEPT ![i] = "passed"]
          ELSE /\ unitState' = [unitState EXCEPT ![i] = "failed"]
               /\ UNCHANGED <<store, console>>
       /\ UNCHANGED <<genVars, requests, dbgVars, coverage>>

\* review_test_coverage.py main() on the catalog and the emitted test file
ReviewCoverage ==
    /\ suite # NoSuite /\ ~coverage.reviewed
    /\ coverage' = AnalyzeCoverage(catalog, ExtractTestsFromFile(suite))
    /\ UNCHANGED <<genVars, runVars, dbgVars>>

IdleRun ==
    store = EmptyStore /\ unitState = <<>> /\ requests = <<>> /\ console = {}
IdleDbg ==
    /\ impl = "none" /\ llm = "no_client" /\ runnerOut = [kind |-> "none"]
    /\ results = NoResults /\ report = NoReport /\ raised = ""
    /\ coverage = NoCoverage

\* TestDebugger().run_tests(): the runner's output is interpreted and reported
RunTests ==
    /\ impl # "none" /\ ~report.built
    /\ LET o == IF impl = "scripts" THEN ScriptsRunTests(runnerOut, llm)
                ELSE AgentsRunTests(runnerOut)
       IN  /\ results' = o.res
           /\ report' = o.report
           /\ raised' = o.raised
    /\ UNCHANGED <<genVars, runVars, impl, llm, runnerOut, coverage>>

\* generation alone, over the catalogs of up to MaxCatalog endpoints
InitGen ==
    /\ IsCatalog(catalog, Pool, MaxCatalog)
    /\ apiSpec = PetstoreSpec
    /\ generator = "none" /\ suite = NoSuite
    /\ IdleRun /\ IdleDbg

NextGen == GenerateScripts \/ GenerateAgents \/ GenerateMcp

SpecGen == InitGen /\ [][NextGen]_vars

\* generation followed by the execution of the emitted suite, over the
\* catalogs of up to MaxRunCatalog endpoints of RunPool
RunPool ==
    << Endpoint("POST", P_pet, Json, <<R_200, R_405>>),
       Endpoint("GET", P_petId, {}, <<R_200, R_404>>),
       Endpoint("POST", P_store, Json, <<R_201>>),
       Endpoint("GET", P_storeOrder, {}, <<R_404>>),
       Endpoint("POST", P_user, Json, <<R_default>>),
       Endpoint("GET", P_booksId, {}, <<R_200>>),
       Endpoint("POST", P_petId, Json, <<R_200>>),
       Endpoint("DELETE", P_petId, {}, <<R_204>>) >>

MaxRunCatalog == 2

InitRun ==
    /\ IsCatalog(catalog, RunPool, MaxRunCatalog)
    /\ apiSpec = PetstoreSpec
    /\ generator = "none" /\ suite = NoSuite
    /\ IdleRun /\ IdleDbg

NextRun ==
    \/ GenerateScripts \/ GenerateAgents \/ GenerateMcp
    \/ \E i \in 1..Len(suite.units) : RunnerSkip(i)
    \/ \E i \in 1..Len(suite.units) : Begin(i)
    \/ \E i \in 1..Len(suite.units), resp \in Responses : Finish(i, resp)

SpecRun == InitRun /\ [][NextRun]_vars

\* one run of a TestDebugger over each output the runner can produce; only
\* scripts/debug_test_results.py has an LLM client
InitDbg ==
    /\ catalog = <<>> /\ apiSpec = PetstoreSpec
    /\ generator = "none" /\ suite = NoSuite
    /\ IdleRun
    /\ impl \in {"scripts", "agents"}
    /\ llm \in IF impl = "scripts" THEN {"no_client", "fails", "answers"}
               ELSE {"no_client"}
    /\ IsRunnerOutput(runnerOut)
    /\ results = NoResults /\ report = NoReport /\ raised = ""
    /\ coverage = NoCoverage

NextDbg == RunTests

SpecDbg == InitDbg /\ [][NextDbg]_vars

\* generation followed by the coverage review, over the catalogs of up to
\* MaxCovCatalog endpoints of Pool
MaxCovCatalog == 2

InitCov ==
    /\ IsCatalog(catalog, Pool, MaxCovCatalog)
    /\ apiSpec = PetstoreSpec
    /\ generator = "none" /\ suite = NoSuite
    /\ IdleRun /\ IdleDbg

NextCov == GenerateScripts \/ GenerateAgents \/ GenerateMcp \/ ReviewCoverage

SpecCov == InitCov /\ [][NextCov]_vars

\* generation over the API descriptions of IsApiSpec, for catalogs of up to
\* MaxUrlCatalog endpoints of RunPool
MaxUrlCatalog == 1

InitUrl ==
    /\ IsCatalog(catalog, RunPool, MaxUrlCatalog)
    /\ IsApiSpec(apiSpec)
    /\ generator = "none" /\ suite = NoSuite
    /\ IdleRun /\ IdleDbg

NextUrl == GenerateScripts \/ GenerateAgents \/ GenerateMcp

SpecUrl == InitUrl /\ [][NextUrl]_vars

----------------------------------------------------------------------------
(* Vocabulary of the claims about the emitted plan.                        *)

Units == suite.units
UnitIds == 1..Len(suite.units)

\* a creator: POST whose path has no placeholder
IsCreator(u) == u.method = "POST" /\ ~HasPlaceholder(u.path)
\* an endpoint whose path contains a placeholder
IsItem(u) == HasPlaceholder(u.path)

LastSegment(path) == Split(path, "/")[Len(Split(path, "/"))]

\* the path segment before the first segment that holds a placeholder
RECURSIVE SegmentBeforePlaceholder(_, _)
SegmentBeforePlaceholder(parts, i) ==
    IF i > Len(parts) THEN NoKey
    ELSE IF Contains(parts[i], <<"{">>) THEN (IF i = 1 THEN NoKey ELSE parts[i - 1])
    ELSE SegmentBeforePlaceholder(parts, i + 1)

CreatorKey(u) == LastSegment(u.path)
ConsumerKey(u) == SegmentBeforePlaceholder(Split(u.path, "/"), 1)

\* the position in the catalog of the endpoint a unit was emitted for
CatalogIndex(u) ==
    CHOOSE k \in 1..Len(catalog) :
        catalog[k].path = u.path /\ catalog[k].method = u.method

----------------------------------------------------------------------------
(* C1. In the suite emitted by generate_playwright_tests (scripts and      *)
(* agents), every creator is emitted before every endpoint whose path has  *)
(* a placeholder; hence every creator of a resource key comes before every *)
(* item-role consumer of that key.                                         *)
C1_CreatorsBeforeItems ==
    generator \in {"scripts", "agents"} =>
        \A i, j \in UnitIds :
            IsCreator(Units[i]) /\ IsItem(Units[j]) =>
                /\ i < j
                /\ CreatorKey(Units[i]) = ConsumerKey(Units[j]) => i < j

\* a suite with a creator and a consumer of its key that the catalog lists
\* in the opposite order
C1_Witness ==
    /\ generator \in {"scripts", "agents"}
    /\ \E i, j \in UnitIds :
          /\ IsCreator(Units[i]) /\ IsItem(Units[j])
          /\ CreatorKey(Units[i]) = ConsumerKey(Units[j])
          /\ CatalogIndex(Units[j]) < CatalogIndex(Units[i])

(* C5. In the suite emitted by use_playwright_mcp_tools, every creator of  *)
(* a resource key is emitted before every placeholder-bearing endpoint of  *)
(* that key, whatever groups the endpoints are assigned to.                *)
C5_McpCreatorsBeforeConsumers ==
    generator = "mcp" =>
        \A i, j \in UnitIds :
            /\ IsCreator(Units[i]) /\ IsItem(Units[j])
            /\ CreatorKey(Units[i]) = ConsumerKey(Units[j])
            => i < j

(* C2. When a unit emitted with a guard clause executes while the store    *)
(* has no entry for its guard key, its recorded outcome is skipped (not    *)
(* passed, not failed) and it issues no HTTP request.                      *)
C2_GuardedUnitIsSkipped ==
    [][\A i \in 1..Len(unitState) :
          ( /\ unitState[i] = "pending" /\ unitState'[i] # "pending"
            /\ Units[i].guard # NoKey
            /\ Units[i].guard \notin DOMAIN store )
          => (unitState'[i] = "skipped" /\ requests' = requests)]_vars

(* C3. For every unit emitted by scripts generate_test_code with           *)
(* use_stored_id=True, every store key read by a lookup expression of the  *)
(* request URL is checked by the unit's guard clause, so the unit never    *)
(* issues its request while a key it reads is absent from the store.       *)
C3_GuardCoversReadKeys ==
    generator = "scripts" =>
        \A r \in 1..Len(requests) :
            Units[requests[r].unit].use_stored_id => requests[r].absent = {}

(* C4. Every generator entry point emits its units inside one serial       *)
(* test-group declaration, so the units execute one at a time in emitted   *)
(* order: a unit starts only when every unit emitted before it has         *)
(* finished.                                                               *)
C4_SerialGroup ==
    generator # "none" =>
        /\ suite.serial
        /\ \A i, j \in UnitIds :
              i < j /\ unitState[j] # "pending" => Finished(unitState[i])

----------------------------------------------------------------------------
(* Claims about the TestDebugger.                                          *)

\* the tests of a result tree, in the order the interpreter meets them
RECURSIVE TestsOfSpecs(_)
TestsOfSpecs(specs) ==
    IF Len(specs) = 0 THEN <<>>
    ELSE (IF Head(specs).hasTests THEN Head(specs).tests ELSE <<>>)
         \o TestsOfSpecs(Tail(specs))

RECURSIVE TestsOfSuites(_)
TestsOfSuites(suites) ==
    IF Len(suites) = 0 THEN <<>>
    ELSE (IF Head(suites).hasSpecs THEN TestsOfSpecs(Head(suites).specs) ELSE <<>>)
         \o (IF Head(suites).hasSuites THEN TestsOfSuites(Head(suites).suites)
             ELSE <<>>)
         \o TestsOfSuites(Tail(suites))

TestsOfRoot(root) ==
    (IF root.hasSuites THEN TestsOfSuites(root.suites) ELSE <<>>)
    \o (IF root.hasSpecs THEN TestsOfSpecs(root.specs) ELSE <<>>)

OneAttemptEach(tests) ==
    \A i \in 1..Len(tests) : tests[i].hasResults /\ Len(tests[i].results) = 1

WithStatus(tests, status) ==
    Cardinality({ i \in 1..Len(tests) : tests[i].results[1].status = status })

\* a structured output has been interpreted and its tree is non-empty
Interpreted ==
    /\ report.built /\ runnerOut.kind = "json"
    /\ Len(TestsOfRoot(runnerOut.root)) > 0

(* C6. For a structured result tree in which every test has exactly one    *)
(* attempt, the interpreter's total is the number of tests, passed, failed *)
(* and skipped are the numbers of tests whose attempt has that status, and *)
(* there is exactly one failure record per failed test.                    *)
C6_OneAttemptCounts ==
    (Interpreted /\ OneAttemptEach(TestsOfRoot(runnerOut.root))) =>
        LET tests == TestsOfRoot(runnerOut.root)
        IN  /\ results.total = Len(tests)
            /\ results.passed = WithStatus(tests, "passed")
            /\ results.failed = WithStatus(tests, "failed")
            /\ results.skipped = WithStatus(tests, "skipped")
            /\ Len(results.failures) = WithStatus(tests, "failed")

\* the structured output lists no suite and no spec
NothingDiscovered ==
    /\ runnerOut.kind = "json"
    /\ ~Listed(runnerOut.root.hasSuites, runnerOut.root.suites)
    /\ ~Listed(runnerOut.root.hasSpecs, runnerOut.root.specs)

(* C7. In both TestDebugger implementations, a structured output with zero *)
(* suites and zero specs gives a discovery-failure report: its errors list *)
(* is non-empty and it does not carry the ALL TESTS PASSED banner.         *)
C7_DiscoveryFailureReport ==
    (report.built /\ NothingDiscovered) =>
        Len(report.errors) > 0 /\ ~report.banner

HasRec(rep, rec) ==
    \E k \in 1..Len(rep.recommendations) : rep.recommendations[k].rec = rec

(* C8. A report of scripts/debug_test_results.py whose summary total is 0  *)
(* does not contain the less-than-50%-passing recommendation.              *)
C8_NoPassRateWarningWithoutTests ==
    (impl = "scripts" /\ report.built /\ report.summary.total = 0) =>
        ~HasRec(report, "lt50")

(* C9. generate_mcp_suggestions does not raise for any failure record the  *)
(* interpreter passes to it, from the structured path or from the free-    *)
(* text path, and returns the empty list when message and detail are both  *)
(* empty.                                                                  *)
C9_ClassifierNeverRaises ==
    /\ raised \notin {"KeyError", "AttributeError"}
    /\ \A i \in 1..Len(results.failures) :
          ( /\ results.failures[i].errorMessage = M_empty
            /\ results.failures[i].errorDetails = M_empty )
          => results.failures[i].suggestions = <<>>

Matchers ==
    {"network", "endpoint", "authentication", "request", "server", "assertion",
     "dependency", "status"}

\* the predicate of a matcher on the lower-cased message and details
MatcherHolds(m, error_msg, error_details) ==
    IF m = "network" THEN FiresNetwork(error_msg, error_details)
    ELSE IF m = "endpoint" THEN FiresEndpoint(error_msg, error_details)
    ELSE IF m = "authentication" THEN FiresAuthentication(error_msg, error_details)
    ELSE IF m = "request" THEN FiresRequest(error_msg, error_details)
    ELSE IF m = "server" THEN FiresServer(error_msg, error_details)
    ELSE IF m = "assertion" THEN FiresAssertion(error_msg, error_details)
    ELSE IF m = "dependency" THEN FiresDependency(error_msg, error_details)
    ELSE FiresStatus(error_msg, error_details)

TagsOf(failure) ==
    { failure.suggestions[k].type : k \in 1..Len(failure.suggestions) }

(* C10. The tags of every classified failure are exactly the matchers      *)
(* whose predicate holds on its text, each at most once, and the message   *)
(* 'Error: expected 200, received 404 Not Found' gets at least the         *)
(* endpoint tag and the status tag.                                        *)
C10_TagsAreTheMatchersThatHold ==
    \A i \in 1..Len(results.failures) :
        LET f == results.failures[i]
        IN  /\ TagsOf(f) = { m \in Matchers :
                               MatcherHolds(m, Lower(f.errorMessage),
                                            Lower(f.errorDetails)) }
            /\ Len(f.suggestions) = Cardinality(TagsOf(f))
            /\ f.errorMessage = M_status404
               => {"endpoint", "status"} \subseteq TagsOf(f)

\* a failure with that message has been classified and carries both tags
C10_Witness ==
    \E i \in 1..Len(results.failures) :
        /\ results.failures[i].errorMessage = M_status404
        /\ {"endpoint", "status"} \subseteq TagsOf(results.failures[i])
        /\ Len(results.failures[i].suggestions) > 1

\* the lower-cased concatenation of the message and the detail text of a record
MessageAndDetails(f) == Lower(f.errorMessage) \o <<"\n">> \o Lower(f.errorDetails)

(* C11. Every matcher is evaluated against the lower-cased concatenation   *)
(* of the error message and the error detail text: the tags of a           *)
(* classified failure are the matchers whose signal tokens occur in the    *)
(* message or in the detail text.                                          *)
C11_MatchersReadMessageAndDetails ==
    \A i \in 1..Len(results.failures) :
        LET f == results.failures[i]
        IN  TagsOf(f) = { m \in Matchers :
                            MatcherHolds(m, MessageAndDetails(f),
                                         MessageAndDetails(f)) }

\* the descriptor a unit was generated from
EndpointOf(u) == catalog[CatalogIndex(u)]

\* the preference order: 200, 201, 204, the first declared 2xx code, 200
PreferredStatus(responses) ==
    LET hits == {i \in 1..Len(responses) : IsSuccessCode(responses[i])}
        first == CHOOSE i \in hits : \A j \in hits : i <= j
    IN  IF Declares(responses, R_200) THEN 200
        ELSE IF Declares(responses, R_201) THEN 201
        ELSE IF Declares(responses, R_204) THEN 204
        ELSE IF hits # {} THEN ToInt(responses[first])
        ELSE 200

(* C12. In every generation mode the status a unit asserts is chosen from  *)
(* the declared response codes of its descriptor by the preference order   *)
(* 200, 201, 204, first declared 2xx code, and 200 when no 2xx code is     *)
(* declared.                                                               *)
C12_ExpectedStatusPreference ==
    \A i \in UnitIds :
        Units[i].expected_status = PreferredStatus(EndpointOf(Units[i]).responses)

----------------------------------------------------------------------------
(* The base URL of the emitted suite.                                      *)

ServersUrlSet(spec) ==
    /\ spec.hasServers /\ Len(spec.servers) > 0
    /\ spec.servers[1].url # Absent /\ Len(spec.servers[1].url) > 0
HostSet(spec) == spec.host # Absent /\ Len(spec.host) > 0

\* the URL shares scheme and host with the retrieval URL
DerivedFromRetrievalUrl(url, swagger_url) ==
    /\ Contains(url, Sep_scheme)
    /\ UrlParse(url).scheme = UrlParse(swagger_url).scheme
    /\ UrlParse(url).netloc = UrlParse(swagger_url).netloc

ResolvedInOrder(url, spec) ==
    IF ServersUrlSet(spec) THEN url = RStripSlash(spec.servers[1].url)
    ELSE IF HostSet(spec) THEN url = HostUrl(spec)
    ELSE DerivedFromRetrievalUrl(url, spec.swagger_url)

\* C13: the BASE_URL written into the generated suite is servers[0].url when
\* servers is present and that url is non-empty, otherwise scheme://host+basePath
\* when host is set, otherwise a URL derived from the retrieval URL; a
\* description with an empty servers[0].url and a host resolves to
\* scheme://host+basePath
C13_BaseUrlResolutionOrder ==
    suite # NoSuite => ResolvedInOrder(suite.base_url, apiSpec)

----------------------------------------------------------------------------
(* Which endpoints of the catalog are emitted.                             *)

\* the only declared media type is a multipart or a url-encoded form
FormOnly(ep) == ep.consumes = Multipart \/ ep.consumes = UrlEncoded
BulkCreation(ep) == ep.path \in {P_createWithList, P_createWithArray}
Emitted(k) == \E i \in UnitIds : CatalogIndex(Units[i]) = k
\* the endpoints the agents generator puts in one of its groups when it keeps
\* them: POST and GET without placeholder, everything with a placeholder
AgentsGroups(ep) == ep.method \in {"POST", "GET"} \/ HasPlaceholder(ep.path)

\* C14: an endpoint is left out on media-type grounds only when its only
\* declared media type is multipart/form-data or
\* application/x-www-form-urlencoded, so one that also declares
\* application/json is emitted; /user/createWithList and
\* /user/createWithArray are left out for every method
C14_ExcludedOnlyWhenFormOnly ==
    /\ generator = "scripts" =>
          \A k \in 1..Len(catalog) :
              Emitted(k) <=> ~(FormOnly(catalog[k]) \/ BulkCreation(catalog[k]))
    /\ generator = "agents" =>
          \A k \in 1..Len(catalog) :
              AgentsGroups(catalog[k]) =>
                 (Emitted(k) <=> ~(FormOnly(catalog[k]) \/ BulkCreation(catalog[k])))
    /\ generator = "mcp" =>
          \A k \in 1..Len(catalog) :
              Emitted(k) => ~(FormOnly(catalog[k]) \/ BulkCreation(catalog[k]))

----------------------------------------------------------------------------
(* The keys the placeholders of a path are substituted from.               *)

\* the path segments that precede the placeholder segments, in path order
RECURSIVE OwnersOfPlaceholders(_, _)
OwnersOfPlaceholders(parts, i) ==
    IF i > Len(parts) THEN <<>>
    ELSE IF Contains(parts[i], <<"{">>) /\ i > 1
         THEN <<parts[i - 1]>> \o OwnersOfPlaceholders(parts, i + 1)
         ELSE OwnersOfPlaceholders(parts, i + 1)

OwnersOf(u) == OwnersOfPlaceholders(Split(u.path, "/"), 1)
Substituted(u) == Len(TemplateLookups(u.url)) = Len(FindAllParams(u.path))

\* C15: in a unit of generate_test_code whose placeholders are substituted,
\* two placeholders that belong to different resources (different preceding
\* segments) are substituted from different keys
C15_PlaceholdersOfDifferentResources ==
    generator = "scripts" =>
        \A i \in UnitIds :
            LET u == Units[i]
                lookups == TemplateLookups(u.url)
            IN  Substituted(u) /\ Len(OwnersOf(u)) = Len(lookups) =>
                   \A a, b \in 1..Len(lookups) :
                       OwnersOf(u)[a] # OwnersOf(u)[b] =>
                           lookups[a].key # lookups[b].key

\* the key the keyword rule gives a placeholder name
KeyByKeyword(param, preceding) ==
    IF Contains(Lower(param), K_pet) THEN K_pet
    ELSE IF Contains(Lower(param), K_order) THEN K_order
    ELSE IF Contains(Lower(param), K_user) THEN K_user
    ELSE preceding

\* C16: in a unit of generate_test_code whose placeholders are substituted,
\* every placeholder is substituted from the key pet, order or user when its
\* lower-cased name contains that word (in this order of preference), else
\* from the path segment before the first placeholder, and never from the
\* raw placeholder name; /store/order/{orderId} reads the key order
C16_KeyByKeyword ==
    generator = "scripts" =>
        \A i \in UnitIds :
            LET u == Units[i]
                params == FindAllParams(u.path)
                lookups == TemplateLookups(u.url)
            IN  Substituted(u) =>
                   \A a \in 1..Len(params) :
                       /\ lookups[a].key = KeyByKeyword(params[a], ConsumerKey(u))
                       /\ lookups[a].key # params[a]

\* the suite of the scripts generator reads order for /store/order/{orderId},
\* and the segment before the first placeholder for a name without keyword
C16_Witness ==
    /\ generator = "scripts"
    /\ \E i \in UnitIds :
          /\ Units[i].path = P_orderId
          /\ TemplateLookups(Units[i].url) = <<[key |-> K_order, or1 |-> FALSE]>>
    /\ \E i \in UnitIds :
          /\ Units[i].path = P_booksId
          /\ TemplateLookups(Units[i].url) = <<[key |-> K_Books, or1 |-> FALSE]>>

----------------------------------------------------------------------------
(* The store hook of the creator units.                                    *)

\* the identifiers a creator's response body offers for the key
IdentifiersFor(key, body) ==
    ({body.id} \cup (IF key = K_user THEN {body.username} ELSE {})) \ {Undefined}

\* unit i ends with the response resp in this step
Executes(i, resp) ==
    /\ unitState[i] = "running" /\ Finished(unitState'[i])
    /\ Finish(i, resp)

\* C17: only placeholder-free POST units carry the store hook; when such a
\* unit ends with a successful response whose body has an id (or, for the key
\* user only, a username), the store entry of the unit's key is that value
\* afterwards; when the response is not successful or has no identifier, the
\* store is unchanged
C17_CreatorHookStoresIdentifier ==
    [][ /\ \A i \in UnitIds : Units[i].hook # "none" => IsCreator(Units[i])
        /\ \A i \in UnitIds : \A resp \in Responses :
              Executes(i, resp) /\ IsCreator(Units[i]) =>
                 LET key == CreatorKey(Units[i])
                     found == IdentifiersFor(key, resp)
                 IN  IF resp.ok /\ found # {}
                     THEN \E v \in found : store' = StorePut(store, key, v)
                     ELSE store' = store ]_vars

\* C18: when a creator unit, of any key and any generator, ends with a
\* successful response whose body has neither id nor username, the unit
\* writes a warning
C18_MissingIdentifierIsLogged ==
    [][ \A i \in UnitIds : \A resp \in Responses :
            /\ Executes(i, resp) /\ IsCreator(Units[i])
            /\ resp.ok /\ resp.id = Undefined /\ resp.username = Undefined
            => [unit |-> i, level |-> "warn"] \in console' ]_vars

----------------------------------------------------------------------------
(* The failure records of analyze_text_output.                             *)

IsFailureMarker(line) ==
    Contains(line, W_failed) \/ Contains(line, G_cross) \/ Contains(line, G_times)
IsErrorLine(line) == Contains(line, W_Error) \/ Contains(line, W_at)

\* the accumulators a blank line closes, in order: the marker line and the
\* error and stack-frame lines collected since
RECURSIVE ClosedAccumulators(_, _, _)
ClosedAccumulators(lines, open, cur) ==
    IF Len(lines) = 0 THEN <<>>
    ELSE LET line == Head(lines)
             opened == open \/ IsFailureMarker(line)
             cur0 == IF IsFailureMarker(line)
                     THEN [test |-> Strip(line), errorMessage |-> <<>>]
                     ELSE cur
             cur1 == IF opened /\ IsErrorLine(line)
                     THEN [cur0 EXCEPT !.errorMessage = @ \o line \o <<"\n">>]
                     ELSE cur0
         IN  IF opened /\ Strip(line) = <<>>
             THEN <<cur1>> \o ClosedAccumulators(Tail(lines), FALSE, cur1)
             ELSE ClosedAccumulators(Tail(lines), opened, cur1)

TextAnalysed ==
    /\ report.built /\ runnerOut.kind = "text"
    /\ ~(impl = "scripts" /\ AllBlank(runnerOut.lines))

\* C19: after analyze_text_output, results.failures holds one record for every
\* accumulator that a failure-marker line opened and a blank line closed, with
\* the error and stack-frame lines in between as its message, and
\* analyze_text_output returned normally
C19_TextFailureRecorded ==
    TextAnalysed =>
        /\ raised = ""
        /\ [i \in 1..Len(results.failures) |->
               [test |-> results.failures[i].test,
                errorMessage |-> results.failures[i].errorMessage]]
             = ClosedAccumulators(runnerOut.lines, FALSE,
                                  [test |-> <<>>, errorMessage |-> <<>>])

----------------------------------------------------------------------------
(* run_tests always ends with a report.                                    *)

LaunchFailed == runnerOut.kind = "launch_error"
NoOutput == runnerOut.kind = "text" /\ AllBlank(runnerOut.lines)

\* an entry of errors with the remediation actions of analyze_error_output
IsCapturedError(e) ==
    /\ Len(e.suggestions) > 0
    /\ \A k \in 1..Len(e.suggestions) : e.suggestions[k].actions > 0

\* C20: every run_tests of scripts/debug_test_results.py ends with the report
\* built; when the runner cannot be launched, prints nothing, or the analysis
\* of its output raises, the last entry of results.errors carries remediation
\* actions and the report lists it; nothing raised leaves run_tests without a
\* report
C20_RunTestsAlwaysReports ==
    [][ impl = "scripts" =>
          /\ report'.built
          /\ (LaunchFailed \/ NoOutput \/ raised' # "") =>
                /\ Len(results'.errors) > 0
                /\ IsCapturedError(results'.errors[Len(results'.errors)])
                /\ report'.errors = results'.errors ]_vars

\* a run whose analysis raised after counting a test: the exception is an
\* entry of errors and the report is built
C20_Witness ==
    /\ impl = "scripts" /\ report.built
    /\ raised \in {"KeyError", "AttributeError"}
    /\ results.total > 0
    /\ Len(report.errors) = 1 /\ IsCapturedError(report.errors[1])

----------------------------------------------------------------------------
(* apply_llm_analysis is an enrichment only.                               *)

\* the outcome of the same run when no client is configured
WithoutClient == ScriptsRunTests(runnerOut, "no_client")

\* C21: after a run of scripts/debug_test_results.py the counters, the
\* failures with their suggestions and the errors are those of the same run
\* without a client; with no client or a failing call the results are the same
\* altogether, and an answer only sets aiAnalysis; nothing raised comes from
\* apply_llm_analysis
C21_LlmAnalysisOnlyEnriches ==
    (impl = "scripts" /\ report.built) =>
        LET plain == WithoutClient
        IN  /\ results = IF llm = "answers"
                         THEN [plain.res EXCEPT !.aiAnalysis = AiText]
                         ELSE plain.res
            /\ plain.res.aiAnalysis = Absent
            /\ raised = plain.raised

\* a run with an answering client that recorded a classified failure
C21_Witness ==
    /\ impl = "scripts" /\ report.built /\ llm = "answers"
    /\ results.aiAnalysis = AiText
    /\ Len(results.failures) > 0
    /\ Len(results.failures[1].suggestions) > 0

----------------------------------------------------------------------------
(* The coverage review of an emitted suite.                                *)

\* C22: after the review of a test file produced by generate_test_code
\* (scripts or agents generator), every catalog endpoint the file holds a
\* request call for is reported covered, dependent endpoints with their
\* placeholders replaced by store lookups included
C22_EmittedEndpointsAreCovered ==
    (coverage.reviewed /\ generator \in {"scripts", "agents"}) =>
        \A k \in 1..Len(catalog) : Emitted(k) => k \in coverage.covered

----------------------------------------------------------------------------
(* The order of the roles in the emitted plan.                             *)

IsLister(u) == u.method = "GET" /\ ~HasPlaceholder(u.path)
IsItemReader(u) == u.method = "GET" /\ HasPlaceholder(u.path)
IsItemMutator(u) == u.method = "PUT" /\ HasPlaceholder(u.path)
IsItemDeleter(u) == u.method = "DELETE" /\ HasPlaceholder(u.path)
HasRole(u) ==
    IsCreator(u) \/ IsLister(u) \/ IsItemReader(u) \/ IsItemMutator(u)
        \/ IsItemDeleter(u)

\* the place of a role in the order creators, listers, item readers, item
\* mutators, item deleters
RoleRank(u) ==
    IF IsCreator(u) THEN 1 ELSE IF IsLister(u) THEN 2
    ELSE IF IsItemReader(u) THEN 3 ELSE IF IsItemMutator(u) THEN 4 ELSE 5

\* the key of a creator or of an item-role unit
RoleKey(u) == IF IsCreator(u) THEN CreatorKey(u) ELSE ConsumerKey(u)

\* C23: in the plans of generate_playwright_tests (scripts) and of
\* use_playwright_mcp_tools, the units of one resource key come in the order
\* creators, item readers, item mutators, item deleters: no item deleter of a
\* key is emitted before an item reader or an item mutator of that key
C23_RoleOrderPerKey ==
    generator \in {"scripts", "mcp"} =>
        \A i, j \in UnitIds :
            /\ i < j
            /\ HasRole(Units[i]) /\ ~IsLister(Units[i])
            /\ HasRole(Units[j]) /\ ~IsLister(Units[j])
            /\ RoleKey(Units[i]) = RoleKey(Units[j])
            => RoleRank(Units[i]) <= RoleRank(Units[j])

\* C24: in the plans of generate_playwright_tests (scripts and agents), the
\* kept endpoints that match no role (PUT or DELETE without placeholder) are
\* emitted, and after every role-bearing unit
C24_RolelessAtTheEnd ==
    generator \in {"scripts", "agents"} =>
        /\ \A k \in 1..Len(catalog) :
              ~Excluded(catalog[k]) /\ ~HasRole(catalog[k]) => Emitted(k)
        /\ \A i, j \in UnitIds :
              i < j /\ ~HasRole(Units[i]) => ~HasRole(Units[j])

\* run_tests took the structured path to its end: analyze_results walked the
\* tree and built the report
StructuredPath ==
    /\ report.built /\ raised = ""
    /\ runnerOut.kind = "json" /\ ~NothingDiscovered

\* C25: after analyze_results of scripts/debug_test_results.py on a structured
\* tree, retries and other statuses included, passed + failed + skipped is at
\* most total, passed is at most total, and the pass rate is at most 100
C25_CountersWithinTotal ==
    (impl = "scripts" /\ StructuredPath) =>
        /\ results.passed + results.failed + results.skipped <= results.total
        /\ results.passed <= results.total
        /\ PassRate(results) <= 10000

\* the units of the emitted suite generated from the k-th catalog endpoint
UnitsOf(k) == { i \in UnitIds : CatalogIndex(Units[i]) = k }

\* C26: in each generator (scripts, agents, mcp) every catalog endpoint that
\* the exclusion filter keeps yields exactly one unit of the emitted suite
C26_OneUnitPerKeptEndpoint ==
    generator \in {"scripts", "agents", "mcp"} =>
        \A k \in 1..Len(catalog) :
            ~Excluded(catalog[k]) => Cardinality(UnitsOf(k)) = 1

\* the body of unit i starts in this step: its guard is evaluated
Begins(i) == unitState[i] = "pending" /\ Begin(i)

\* C27: in a suite of scripts generate_playwright_tests, a guarded unit whose
\* guard key a creator has written to the store, whatever the value stored
\* (0 or the empty string included), issues its request when it runs
C27_GuardSkipsOnlyWithoutStoredKey ==
    [][ generator = "scripts" =>
           \A i \in UnitIds :
               /\ Begins(i)
               /\ Units[i].guard # NoKey
               /\ Units[i].guard \in DOMAIN store
               => /\ unitState'[i] = "running"
                  /\ Len(requests') = Len(requests) + 1
                  /\ requests'[Len(requests')].unit = i ]_vars

\* the positions of the recommendation rec in a report
RecsOf(rep, rec) ==
    { k \in 1..Len(rep.recommendations) : rep.recommendations[k].rec = rec }

\* C28: a report of scripts/debug_test_results.py never carries both the
\* ALL TESTS PASSED banner and the less-than-50%-passing recommendation, and
\* carries that recommendation at most once
C28_BannerAndWarningExclusive ==
    (impl = "scripts" /\ report.built) =>
        /\ ~(report.banner /\ RecsOf(report, "lt50") # {})
        /\ Cardinality(RecsOf(report, "lt50")) <= 1

\* C29: in a suite of scripts generate_playwright_tests the store is empty
\* until a unit has run, a step changes it only when a creator unit emitted
\* with use_stored_id=False ends with a successful response, and no step of a
\* unit emitted with use_stored_id=True (guarded or not, returning at its
\* guard or not, POST on a placeholder path and DELETE included) changes it
C29_OnlyCreatorsWriteTheStore ==
    [][ generator = "scripts" =>
           /\ (\A i \in UnitIds : unitState[i] = "pending") => store = EmptyStore
           /\ store' # store =>
                 \E i \in UnitIds : \E resp \in Responses :
                     /\ Executes(i, resp) /\ resp.ok
                     /\ IsCreator(Units[i]) /\ ~Units[i].use_stored_id
           /\ \A i \in UnitIds :
                 Units[i].use_stored_id /\ unitState'[i] # unitState[i]
                 => store' = store ]_vars

\* a creator has written the store, and a POST or DELETE unit emitted with
\* use_stored_id=True has issued its request and passed after it
C29_Witness ==
    /\ generator = "scripts" /\ store # EmptyStore
    /\ \E i, j \in UnitIds :
          /\ IsCreator(Units[i]) /\ unitState[i] = "passed"
          /\ Units[j].use_stored_id /\ Units[j].method \in {"POST", "DELETE"}
          /\ unitState[j] = "passed"
          /\ \E r \in 1..Len(requests) : requests[r].unit = j

\* C30: after the structured path of scripts/debug_test_results.py the number
\* of failure records equals the failed counter: every failed attempt, with or
\* without an error object, has appended exactly one record and no other
\* attempt has appended one
C30_OneRecordPerFailedAttempt ==
    (impl = "scripts" /\ report.built /\ runnerOut.kind = "json"
        /\ ~NothingDiscovered) =>
        Len(results.failures) = results.failed

====
